---- MODULE Spec2Model ----
(***************************************************************************)
(* Verification model of the DGSHAPE dashboard data pipeline               *)
(* (src/lib/dataLoader.ts): the CSV parser parseCSV and the mapper          *)
(* parseJobSessions, the time-window selector, the aggregation engine      *)
(* processDataForTimeRange and its helper groupDataByPeriod.               *)
(*                                                                         *)
(* Conventions of the model                                                *)
(*  - An instant (a JavaScript Date's getTime()) is an integer count of    *)
(*    half days since 2000-01-01T00:00 local time: 2 * day + half.  Local  *)
(*    time has no daylight-saving shift.  An Invalid Date is the record    *)
(*    with valid = FALSE.                                                  *)
(*  - A text is a string.  The texts that name an instant are yyyy-mm-dd   *)
(*    (midnight of that day) and yyyy-mm-ddT12:00:00 (its noon), for the   *)
(*    days of the years the model covers; every other text names none.     *)
(*  - Hours and sums of hours are fixed-point numbers in hundredths; a     *)
(*    quotient the code leaves unrounded is a reduced fraction <<n, d>>.   *)
(*  - A JavaScript Map is the sequence of its entries in insertion order.  *)
(*  - duration_minutes, like utilization_hours, is a fixed-point number    *)
(*    in hundredths.                                                       *)
(*  - The text of a CSV document is a sequence of symbols: the comma, the  *)
(*    double quote, the space, the line break, and unbreakable runs of     *)
(*    other characters ("Completed", "2024-02-28", "30").  A field of a    *)
(*    parsed row is the sequence of its symbols; a record field holds      *)
(*    their concatenation.                                                 *)
(***************************************************************************)
EXTENDS Integers, Sequences, FiniteSets, TLC

VARIABLES sessionsText, written, loaded, dailyData, sessions, timeRange, clock, calls

\* The text of the daily document, the rows parseCSV returned last, and the
\* position of the loader.
VARIABLES dailyText, parsedRows, pc

\* The state of the dashboard page and of the server it fetches from.
VARIABLES server, fetched, csv, loading, error, dashboardData, pending, origin

parseVars == <<dailyText, parsedRows, pc>>

pageVars == <<server, fetched, csv, loading, error, dashboardData, pending, origin>>

\* The state of the jobs page (its own loading flag is `loading`, the page
\* being a component of its own).
VARIABLES jobs, currentPage, sortField, sortDirection, filters

jobsVars == <<jobs, currentPage, sortField, sortDirection, filters>>

vars == <<sessionsText, written, loaded, dailyData, sessions, timeRange, clock, calls, parseVars, pageVars, jobsVars>>

(***************************************************************************)
(* Calendar arithmetic (what date-fns and Date do with calendar dates).    *)
(***************************************************************************)
IsLeap(y) == (y % 4 = 0 /\ y % 100 # 0) \/ y % 400 = 0

DaysInMonth(y, m) ==
    IF m = 2 THEN (IF IsLeap(y) THEN 29 ELSE 28)
    ELSE IF m \in {4, 6, 9, 11} THEN 30 ELSE 31

LeapsBefore(y) == ((y - 1) \div 4) - ((y - 1) \div 100) + ((y - 1) \div 400)

\* Days from 2000-01-01 to y-01-01.
DaysBeforeYear(y) == 365 * (y - 2000) + (LeapsBefore(y) - LeapsBefore(2000))

RECURSIVE DaysBeforeMonth(_, _)
DaysBeforeMonth(y, m) ==
    IF m <= 1 THEN 0 ELSE DaysBeforeMonth(y, m - 1) + DaysInMonth(y, m - 1)

DayNumber(y, m, d) == DaysBeforeYear(y) + DaysBeforeMonth(y, m) + (d - 1)

Years == 2017..2026

\* The calendar date <<year, month, day>> of every day number of Years.
YearAt(n) ==
    CHOOSE yy \in Years : DaysBeforeYear(yy) <= n /\ n < DaysBeforeYear(yy + 1)

\* The month of the day r days after y-01-01.
MonthAt(y, r) ==
    CHOOSE mm \in 1..12 :
        DaysBeforeMonth(y, mm) <= r /\ r < DaysBeforeMonth(y, mm) + DaysInMonth(y, mm)

CivilInMonth(y, m, r) == <<y, m, r - DaysBeforeMonth(y, m) + 1>>

CivilInYear(y, r) == CivilInMonth(y, MonthAt(y, r), r)

CivilDate(y, n) == CivilInYear(y, n - DaysBeforeYear(y))

CivilOfDay ==
    [n \in DaysBeforeYear(2017)..(DaysBeforeYear(2027) - 1) |-> CivilDate(YearAt(n), n)]

YearOf(n) == CivilOfDay[n][1]

MonthOf(n) == CivilOfDay[n][2]

DayOfMonth(n) == CivilOfDay[n][3]

\* 0 = Sunday; 2000-01-01 was a Saturday.
DayOfWeek(n) == (n + 6) % 7

Instant(day, half) == 2 * day + half

DayOf(t) == t \div 2

HalfOf(t) == t % 2

\* The last valid day of month (y, m) not after d: what setMonth-based
\* helpers of date-fns do when the target month is shorter.
ClampDay(y, m, d) == IF d > DaysInMonth(y, m) THEN DaysInMonth(y, m) ELSE d

(***************************************************************************)
(* date-fns helpers used by the pipeline.                                  *)
(***************************************************************************)
InvalidDate == [valid |-> FALSE, time |-> 0]

ValidDate(t) == [valid |-> TRUE, time |-> t]

Pad2(n) == IF n < 10 THEN "0" \o ToString(n) ELSE ToString(n)

\* The text yyyy-mm-dd of every day number.
DayTexts ==
    [n \in DOMAIN CivilOfDay |->
        ToString(CivilOfDay[n][1]) \o "-" \o Pad2(CivilOfDay[n][2])
            \o "-" \o Pad2(CivilOfDay[n][3])]

NoonTexts == [n \in DOMAIN CivilOfDay |-> DayTexts[n] \o "T12:00:00"]

\* The text of day number n, and the text of its noon.
TextOfDay(n) == DayTexts[n]

NoonOfDay(n) == NoonTexts[n]

\* The instant every date text names (ISO 8601 notation read backwards),
\* for the days lo..hi.
RECURSIVE InstantsOfTexts(_, _)
InstantsOfTexts(lo, hi) ==
    IF lo = hi
    THEN (DayTexts[lo] :> Instant(lo, 0)) @@ (NoonTexts[lo] :> Instant(lo, 1))
    ELSE InstantsOfTexts(lo, (lo + hi) \div 2) @@ InstantsOfTexts(((lo + hi) \div 2) + 1, hi)

InstantOfText == InstantsOfTexts(DaysBeforeYear(2017), DaysBeforeYear(2027) - 1)

\* The texts that name an instant.
DateTexts == DOMAIN InstantOfText

\* parseISO: a Date for a text that names an instant, Invalid Date for every
\* other text.  For a value that is no string (undefined, null) date-fns 2
\* returns an Invalid Date as well and date-fns 3 raises a TypeError (see
\* ParseRaises).
parseISO(text) ==
    IF text \in DateTexts THEN ValidDate(InstantOfText[text]) ELSE InvalidDate

\* Faulty variant: the interval taken open at its start.
isWithinIntervalOpenStart(date, start, end) ==
    date.valid /\ start < date.time /\ date.time <= end

\* isWithinInterval(date, {start, end}): start <= date <= end on the time
\* values; every comparison with NaN is false.
isWithinInterval(date, start, end) ==
    date.valid /\ start <= date.time /\ date.time <= end

subDays(t, n) == t - 2 * n

subWeeks(t, n) == subDays(t, 7 * n)

\* The day d of month (y, m), or the month's last day when it has no day d.
ClampedDay(y, m, d) == DayNumber(y, m, ClampDay(y, m, d))

\* Month number k counts the months from year 0: k = 12 * year + (month - 1).
DayInMonthNumber(k, d) == ClampedDay(k \div 12, (k % 12) + 1, d)

MonthNumber(day) == YearOf(day) * 12 + (MonthOf(day) - 1)

subMonths(t, n) ==
    Instant(DayInMonthNumber(MonthNumber(DayOf(t)) - n, DayOfMonth(DayOf(t))), HalfOf(t))

subYears(t, n) == subMonths(t, 12 * n)

startOfWeek(t) == Instant(DayOf(t) - DayOfWeek(DayOf(t)), 0)

startOfMonth(t) == Instant(DayOf(t) - (DayOfMonth(DayOf(t)) - 1), 0)

startOfYear(t) == Instant(DaysBeforeYear(YearOf(DayOf(t))), 0)

MonthNames ==
    <<"Jan", "Feb", "Mar", "Apr", "May", "Jun",
      "Jul", "Aug", "Sep", "Oct", "Nov", "Dec">>

\* format(date, 'MMM dd'), format(date, 'MMM yyyy'), format(date, 'yyyy'):
\* the label is the tuple of the formatted parts, in the order they are
\* written; every part has a fixed width.
formatMMMdd(t) == <<MonthNames[MonthOf(DayOf(t))], DayOfMonth(DayOf(t))>>

formatMMMyyyy(t) == <<MonthNames[MonthOf(DayOf(t))], YearOf(DayOf(t))>>

formatyyyy(t) == <<"", YearOf(DayOf(t))>>

\* a.localeCompare(b) on two labels of one format: the month abbreviation is
\* compared as text (its alphabetical rank), then the fixed-width number.
MonthRank(name) ==
    CASE name = "" -> 0
      [] name = "Apr" -> 1 [] name = "Aug" -> 2 [] name = "Dec" -> 3
      [] name = "Feb" -> 4 [] name = "Jan" -> 5 [] name = "Jul" -> 6
      [] name = "Jun" -> 7 [] name = "Mar" -> 8 [] name = "May" -> 9
      [] name = "Nov" -> 10 [] name = "Oct" -> 11 [] name = "Sep" -> 12

localeCompare(a, b) ==
    IF MonthRank(a[1]) # MonthRank(b[1])
    THEN MonthRank(a[1]) - MonthRank(b[1])
    ELSE a[2] - b[2]

(***************************************************************************)
(* JavaScript values and containers.                                       *)
(***************************************************************************)
\* `undefined` in a numeric field (duration_minutes?: number).
Undefined == -1

\* `null` in material_type: string | null.
NullValue == "<null>"

\* `undefined` in a string field (a column the rows lack).
UndefinedValue == "<undefined>"

\* x || 0 on a numeric field.
OrZero(x) == IF x = Undefined THEN 0 ELSE x

\* Truthiness of a string-or-null value: null, undefined and '' are falsy.
Truthy(s) == s \notin {NullValue, UndefinedValue, ""}

\* new Date(text).getTime() for the texts the model uses (same reading as
\* parseISO; local time is UTC).
DateCtor(text) == parseISO(text)

\* Map.has / Map.get / Map.set on a Map kept as its entries in insertion
\* order: set on a present key keeps the key's position.
MapHas(map, key) == \E i \in 1..Len(map) : map[i][1] = key

MapGetOrZero(map, key) ==
    IF MapHas(map, key)
    THEN map[CHOOSE i \in 1..Len(map) : map[i][1] = key][2]
    ELSE 0

\* grouped.has(key) ? grouped.get(key) : [] (the bucket created on first use).
MapGetOrEmpty(map, key) ==
    IF MapHas(map, key)
    THEN map[CHOOSE i \in 1..Len(map) : map[i][1] = key][2]
    ELSE << >>

MapSet(map, key, value) ==
    IF MapHas(map, key)
    THEN [i \in 1..Len(map) |-> IF map[i][1] = key THEN <<key, value>> ELSE map[i]]
    ELSE Append(map, <<key, value>>)

\* The comparators the pipeline hands to Array.prototype.sort, as the number
\* each returns:
\*   "recent"    (a, b) => new Date(b.session_start || b.start_date).getTime()
\*                       - new Date(a.session_start || a.start_date).getTime()
\*   "breakdown" (a, b) => b.count - a.count
\*   "chart"     (a, b) => a.date.localeCompare(b.date)
\* A comparator that returns NaN (a getTime() of an Invalid Date took part)
\* counts for sort as one that returns 0.
EffectiveDate(s) ==
    DateCtor(IF Truthy(s.session_start) THEN s.session_start ELSE s.start_date)

EffectiveTime(s) == EffectiveDate(s).time

RecentComparator(a, b) ==
    IF EffectiveDate(a).valid /\ EffectiveDate(b).valid
    THEN EffectiveTime(b) - EffectiveTime(a)
    ELSE 0

Comparator(kind, a, b) ==
    CASE kind = "recent" -> RecentComparator(a, b)
      [] kind = "breakdown" -> b.count - a.count
      [] kind = "chart" -> localeCompare(a.date, b.date)

\* Array.prototype.sort is stable: an element moves in front of exactly the
\* elements the comparator orders strictly behind it.
RECURSIVE InsertSorted(_, _, _)
InsertSorted(kind, sorted, x) ==
    IF sorted = << >> THEN <<x>>
    ELSE IF Comparator(kind, sorted[Len(sorted)], x) > 0
         THEN Append(InsertSorted(kind, SubSeq(sorted, 1, Len(sorted) - 1), x),
                     sorted[Len(sorted)])
         ELSE Append(sorted, x)

RECURSIVE StableSort(_, _)
StableSort(kind, seq) ==
    IF seq = << >> THEN << >>
    ELSE InsertSorted(kind, StableSort(kind, SubSeq(seq, 1, Len(seq) - 1)), seq[Len(seq)])

RECURSIVE Gcd(_, _)
Gcd(a, b) == IF b = 0 THEN a ELSE Gcd(b, a % b)

\* The exact quotient n / d (d > 0, n >= 0) as a reduced fraction.
Quotient(n, d) == LET g == Gcd(n, d) IN <<n \div g, d \div g>>

\* Faulty variant: Math.floor in place of Math.round.
FloorTenths(n, d) == (10 * n) \div d

\* Math.round(x * 10) / 10 for x = n / d, in tenths (round half up).
RoundTenths(n, d) == (20 * n + d) \div (2 * d)

\* items.reduce((sum, item) => sum + (item[field] || 0), 0)
RECURSIVE SumField(_, _)
SumField(seq, field) ==
    IF seq = << >> THEN 0 ELSE OrZero(Head(seq)[field]) + SumField(Tail(seq), field)

(***************************************************************************)
(* parseCSV and parseJobSessions.                                          *)
(***************************************************************************)
IsSpace(symbol) == symbol \in {" ", "\n"}

\* String.prototype.trim on a sequence of symbols.
RECURSIVE TrimStart(_)
TrimStart(text) ==
    IF text # << >> /\ IsSpace(Head(text)) THEN TrimStart(Tail(text)) ELSE text

RECURSIVE TrimEnd(_)
TrimEnd(text) ==
    IF text # << >> /\ IsSpace(text[Len(text)])
    THEN TrimEnd(SubSeq(text, 1, Len(text) - 1)) ELSE text

Trim(text) == TrimEnd(TrimStart(text))

\* The string a sequence of symbols spells.
RECURSIVE Join(_)
Join(text) == IF text = << >> THEN "" ELSE Head(text) \o Join(Tail(text))

\* The position of the first line break of a text that has one.
FirstBreak(text) ==
    CHOOSE i \in 1..Len(text) : text[i] = "\n" /\ \A j \in 1..(i - 1) : text[j] # "\n"

\* text.split('\n'): the lines between line breaks, at least one line.
RECURSIVE SplitLines(_)
SplitLines(text) ==
    IF \A i \in 1..Len(text) : text[i] # "\n" THEN <<text>>
    ELSE <<SubSeq(text, 1, FirstBreak(text) - 1)>>
             \o SplitLines(SubSeq(text, FirstBreak(text) + 1, Len(text)))

\* The loop over the characters of a line: a double quote toggles inQuotes
\* and is dropped, a comma outside quotes ends the field, any other
\* character joins the field; every field is pushed trimmed.
\* Faulty variant: every comma ends the field, quoted or not.
EndsFieldAnywhere(char, inQuotes) == char = ","

\* char === ',' && !inQuotes
EndsField(char, inQuotes) == char = "," /\ ~inQuotes

RECURSIVE ScanLine(_, _, _, _)
ScanLine(line, values, current, inQuotes) ==
    IF line = << >> THEN Append(values, Trim(current))
    ELSE IF Head(line) = "\""
         THEN ScanLine(Tail(line), values, current, ~inQuotes)
    ELSE IF EndsField(Head(line), inQuotes)
         THEN ScanLine(Tail(line), Append(values, Trim(current)), << >>, inQuotes)
    ELSE ScanLine(Tail(line), values, Append(current, Head(line)), inQuotes)

\* Faulty variant: the text split without being trimmed first.
parseCSVUntrimmed(csvText) ==
    LET lines == SplitLines(csvText)
    IN  [i \in 1..Len(lines) |-> ScanLine(lines[i], << >>, << >>, FALSE)]

parseCSV(csvText) ==
    LET lines == SplitLines(Trim(csvText))
    IN  [i \in 1..Len(lines) |-> ScanLine(lines[i], << >>, << >>, FALSE)]

\* The whole numbers and the decimal fractions the model's texts spell.
IntOfSymbol == (ToString(0) :> 0) @@ [t \in {ToString(n) : n \in 1..99} |->
                   CHOOSE n \in 1..99 : ToString(n) = t]

\* parseInt(value) || 0: the whole number a text starts with, 0 for a text
\* that starts with none (NaN) or with 0.
ParseIntOrZero(value) ==
    IF value # << >> /\ value[1] \in DOMAIN IntOfSymbol THEN IntOfSymbol[value[1]] ELSE 0

\* parseFloat(value) || 0, in hundredths: whole number, then an optional
\* point and one decimal digit.
ParseFloatOrZero(value) ==
    IF value # << >> /\ value[1] \in DOMAIN IntOfSymbol
    THEN 100 * IntOfSymbol[value[1]]
         + (IF Len(value) >= 3 /\ value[2] = "." /\ value[3] \in {ToString(n) : n \in 0..9}
            THEN 10 * IntOfSymbol[value[3]] ELSE 0)
    ELSE 0

\* The fields of a DailyData record.
DailyFields ==
    {"start_date", "total_sessions", "total_duration_minutes", "avg_duration_minutes",
     "completed_sessions", "material_types", "success_rate", "utilization_hours",
     "total_jobs"}

\* The columns parseDailyData reads with parseInt and with parseFloat.
DailyIntegers == {"total_sessions", "completed_sessions", "material_types", "total_jobs"}

DailyReals ==
    {"total_duration_minutes", "avg_duration_minutes", "success_rate", "utilization_hours"}

\* The body of headers.forEach in parseDailyData for one column it knows:
\* the value stored under the column's name.
DailyValue(cleanHeader, value) ==
    IF cleanHeader = "start_date" THEN Join(value)
    ELSE IF cleanHeader \in DailyIntegers THEN ParseIntOrZero(value)
    ELSE ParseFloatOrZero(value)

\* The fields of a JobSession the pipeline reads.
SessionFields ==
    {"session_id", "session_start", "start_date", "start_hour", "material_type",
     "status", "duration_minutes", "job_count"}

\* The body of headers.forEach in parseJobSessions for one column: the
\* value stored under the column's name.
SessionValue(cleanHeader, value) ==
    IF cleanHeader \in {"session_id", "start_hour", "job_count"} THEN ParseIntOrZero(value)
    ELSE IF cleanHeader \in {"duration_minutes"} THEN ParseFloatOrZero(value)
    ELSE Join(value)

\* row[index]?.trim() || '': the trimmed cell, '' for a cell the row lacks.
CellOrEmpty(row, index) == IF index <= Len(row) THEN Trim(row[index]) ELSE << >>

\* The object parseJobSessions builds for one row: a column named like a
\* field sets it (the last such column wins); a field no column names stays
\* undefined.
SessionOfRow(headers, row) ==
    [field \in SessionFields |->
        LET columns == {i \in 1..Len(headers) : Join(Trim(headers[i])) = field}
        IN  IF columns = {}
            THEN (IF field \in {"session_id", "start_hour", "job_count", "duration_minutes"}
                  THEN Undefined ELSE UndefinedValue)
            ELSE SessionValue(field,
                     CellOrEmpty(row, CHOOSE i \in columns : \A k \in columns : k <= i))]

\* Faulty variant: a row with fewer cells than the header is left out.
parseJobSessionsWholeRows(csvText) ==
    LET rows == parseCSV(csvText)
        headers == rows[1]
        whole == SelectSeq(Tail(rows), LAMBDA row : Len(row) >= Len(headers))
    IN  [k \in 1..Len(whole) |-> SessionOfRow(headers, whole[k])]

parseJobSessions(csvText) ==
    LET rows == parseCSV(csvText)
        headers == rows[1]
    IN  [k \in 1..(Len(rows) - 1) |-> SessionOfRow(headers, rows[k + 1])]

\* The object parseDailyData builds for one row: a column named like a field
\* of DailyData sets it (the last such column wins), a column of any other
\* name sets nothing, and a field no column names stays undefined.
DailyOfRow(headers, row) ==
    [field \in DailyFields |->
        LET columns == {i \in 1..Len(headers) : Join(Trim(headers[i])) = field}
        IN  IF columns = {}
            THEN (IF field = "start_date" THEN UndefinedValue ELSE Undefined)
            ELSE DailyValue(field,
                     CellOrEmpty(row, CHOOSE i \in columns : \A k \in columns : k <= i))]

parseDailyData(csvText) ==
    LET rows == parseCSV(csvText)
        headers == rows[1]
    IN  [k \in 1..(Len(rows) - 1) |-> DailyOfRow(headers, rows[k + 1])]

(***************************************************************************)
(* processDataForTimeRange and groupDataByPeriod.                          *)
(*                                                                         *)
(* A DailyData record carries the fields the pipeline reads: start_date,   *)
(* total_sessions, completed_sessions, utilization_hours (hundredths of an *)
(* hour).  A JobSession record carries session_id, session_start,          *)
(* start_date, start_hour, material_type, status, duration_minutes and     *)
(* job_count.                                                              *)
(***************************************************************************)
TimeRanges == {"daily", "weekly", "monthly", "yearly"}

\* The switch on timeRange: startDate.
WindowStart(range, now) ==
    CASE range = "daily" -> subDays(now, 30)
      [] range = "weekly" -> subWeeks(now, 12)
      [] range = "monthly" -> subMonths(now, 12)
      [] range = "yearly" -> subYears(now, 5)

\* The switch on timeRange: groupBy.
groupBy(range, t) ==
    CASE range = "daily" -> formatMMMdd(t)
      [] range = "weekly" -> formatMMMdd(startOfWeek(t))
      [] range = "monthly" -> formatMMMyyyy(startOfMonth(t))
      [] range = "yearly" -> formatyyyy(startOfYear(t))

\* The predicate of both filters: parseISO, then isWithinInterval over
\* { start: startDate, end: now }.
KeepInWindow(text, startDate, now) ==
    isWithinInterval(parseISO(text), startDate, now)

FilterDaily(daily, startDate, now) ==
    SelectSeq(daily, LAMBDA item : KeepInWindow(item.start_date, startDate, now))

FilterSessions(sess, startDate, now) ==
    SelectSeq(sess, LAMBDA session : KeepInWindow(session.start_date, startDate, now))

\* The forEach of groupDataByPeriod: a Map from label to the items of the
\* bucket, both in insertion order.  format throws on an Invalid Date and the
\* catch skips the item.
\* Faulty variant: the item replaces the bucket instead of joining it.
PushItemAlone(grouped, key, item) == MapSet(grouped, key, <<item>>)

\* if (!grouped.has(key)) grouped.set(key, []); grouped.get(key).push(item)
PushItem(grouped, key, item) ==
    MapSet(grouped, key, Append(MapGetOrEmpty(grouped, key), item))

RECURSIVE GroupItems(_, _, _)
GroupItems(data, range, grouped) ==
    IF data = << >> THEN grouped
    ELSE IF ~parseISO(Head(data).start_date).valid
         THEN GroupItems(Tail(data), range, grouped)
         ELSE GroupItems(Tail(data), range,
                  PushItem(grouped, groupBy(range, parseISO(Head(data).start_date).time),
                           Head(data)))

\* The map callback of groupDataByPeriod: one chart point per Map entry.
PointOf(date, totalJobs, totalCompleted, utilization) ==
    [date |-> date,
     jobs |-> totalJobs,
     success_rate |-> IF totalJobs > 0 THEN RoundTenths(100 * totalCompleted, totalJobs)
                      ELSE 0,
     utilization |-> RoundTenths(utilization, 100)]

ChartPoint(entry) ==
    PointOf(entry[1],
            SumField(entry[2], "total_sessions"),
            SumField(entry[2], "completed_sessions"),
            SumField(entry[2], "utilization_hours"))

\* Array.from(grouped.entries()).map(...)
ChartPoints(grouped) == [i \in 1..Len(grouped) |-> ChartPoint(grouped[i])]

\* Faulty variant: the chart points left in Map order, the sort dropped.
groupDataByPeriodUnsorted(data, range) == ChartPoints(GroupItems(data, range, << >>))

groupDataByPeriod(data, range) ==
    StableSort("chart", ChartPoints(GroupItems(data, range, << >>)))

getMaterialColor(material) ==
    CASE material = "Pan Dental" -> "#3b82f6"
      [] material = "Denture Care" -> "#10b981"
      [] material = "hyperDENT" -> "#f59e0b"
      [] OTHER -> "#6b7280"

\* const current = counts.get(key) || 0; counts.set(key, current + 1)
CountOne(counts, key) == MapSet(counts, key, MapGetOrZero(counts, key) + 1)

\* Faulty variant: the Map hoisted out of the function: it still holds the counts
\* of the previous call.
LeftoverMaterialCounts ==
    IF calls = << >> THEN << >>
    ELSE LET left == calls[Len(calls)].value.materialBreakdown
         IN  [j \in 1..Len(left) |-> <<left[j].material, left[j].count>>]

\* const materialCounts = new Map<string, number>(): created by each call.
NewMaterialCounts == << >>

\* Faulty variant: a session without material counted under 'Unknown'.
RECURSIVE CountMaterialsWithUnknown(_, _)
CountMaterialsWithUnknown(sess, counts) ==
    IF sess = << >> THEN counts
    ELSE CountMaterialsWithUnknown(Tail(sess),
             CountOne(counts, IF Truthy(Head(sess).material_type)
                              THEN Head(sess).material_type ELSE "Unknown"))

\* The forEach that fills materialCounts.
RECURSIVE CountMaterials(_, _)
CountMaterials(sess, counts) ==
    IF sess = << >> THEN counts
    ELSE IF Truthy(Head(sess).material_type)
         THEN CountMaterials(Tail(sess), CountOne(counts, Head(sess).material_type))
         ELSE CountMaterials(Tail(sess), counts)

\* Array.from(materialCounts.entries()).map(...)
BreakdownEntries(materialCounts) ==
    [i \in 1..Len(materialCounts) |->
        [material |-> materialCounts[i][1],
         count |-> materialCounts[i][2],
         color |-> getMaterialColor(materialCounts[i][1])]]

\* Faulty variant: the entries left in Map order, the sort dropped.
MaterialBreakdownUnsorted(materialCounts) == BreakdownEntries(materialCounts)

MaterialBreakdown(materialCounts) ==
    StableSort("breakdown", BreakdownEntries(materialCounts))

\* filteredSessions.sort(...): sorts the filtered array in place, so every
\* later read of filteredSessions sees this order; slice(0, 10) copies.
SortRecent(filtered) == StableSort("recent", filtered)

FirstTen(seq) == SubSeq(seq, 1, IF Len(seq) < 10 THEN Len(seq) ELSE 10)

\* The forEach that fills hourCounts.
RECURSIVE CountHours(_, _)
CountHours(sess, counts) ==
    IF sess = << >> THEN counts
    ELSE IF Head(sess).start_hour # Undefined
         THEN CountHours(Tail(sess), CountOne(counts, Head(sess).start_hour))
         ELSE CountHours(Tail(sess), counts)

\* The reduce over hourCounts.entries() with the seed [9, 0].
RECURSIVE ReducePeak(_, _, _)
ReducePeak(entries, hourCounts, max) ==
    IF entries = << >> THEN max
    ELSE ReducePeak(Tail(entries), hourCounts,
             IF Head(entries)[2] > MapGetOrZero(hourCounts, max[1])
             THEN Head(entries) ELSE max)

\* Faulty variant: the reduce seeded with [0, 0].
PeakHourSeedZero(hourCounts) == ReducePeak(hourCounts, hourCounts, <<0, 0>>)[1]

\* Faulty variant: the first hour met taken as the peak.
PeakHourFirstEntry(hourCounts) == IF hourCounts = << >> THEN 9 ELSE hourCounts[1][1]

PeakHour(hourCounts) == ReducePeak(hourCounts, hourCounts, <<9, 0>>)[1]

\* Faulty variant: the jobs of the sessions summed.
TotalJobsByJobCount(filteredSessions) == SumField(filteredSessions, "job_count")

\* const totalJobs = filteredSessions.length
TotalJobs(filteredSessions) == Len(filteredSessions)

\* s.status === 'Completed'
IsCompleted(s) == s.status = "Completed"

\* Faulty variant: every status but 'Completed' taken as an error.
IsNotCompleted(s) == s.status # "Completed"

\* s.status === 'Incomplete'
IsIncomplete(s) == s.status = "Incomplete"

\* The result object of processDataForTimeRange, from the values its body
\* has computed.
Result(totalJobs, completedJobs, totalUtilization, materialCounts, sortedSessions, totalDuration, errorCount, hourCounts, groupedData) ==
    [totalJobs |-> totalJobs,
     successRate |-> IF totalJobs > 0 THEN Quotient(completedJobs * 100, totalJobs)
                     ELSE <<0, 1>>,
     utilizationHours |-> totalUtilization,
     materialTypes |-> Len(materialCounts),
     avgDuration |-> IF totalJobs > 0 THEN Quotient(totalDuration, totalJobs)
                     ELSE <<0, 1>>,
     peakHour |-> PeakHour(hourCounts),
     errorCount |-> errorCount,
     chartData |-> groupedData,
     materialBreakdown |-> MaterialBreakdown(materialCounts),
     recentSessions |-> FirstTen(sortedSessions)]

\* The body after the sort of line 149: filteredSessions is the array as
\* filtered, sortedSessions the same array once sorted in place; what the
\* code reads before line 149 reads the former, what it reads after it the
\* latter.
Metrics(filteredDaily, filteredSessions, sortedSessions, range) ==
    Result(TotalJobs(filteredSessions),
           Len(SelectSeq(filteredSessions, IsCompleted)),
           SumField(filteredDaily, "utilization_hours"),
           CountMaterials(filteredSessions, NewMaterialCounts),
           sortedSessions,
           SumField(sortedSessions, "duration_minutes"),
           Len(SelectSeq(sortedSessions, IsIncomplete)),
           CountHours(sortedSessions, << >>),
           groupDataByPeriod(filteredDaily, range))

\* The body after both filters.
Aggregate(filteredDaily, filteredSessions, range) ==
    Metrics(filteredDaily, filteredSessions, SortRecent(filteredSessions), range)

\* The body after the switch on timeRange.
FilterAndAggregate(daily, sess, range, startDate, now) ==
    Aggregate(FilterDaily(daily, startDate, now), FilterSessions(sess, startDate, now), range)

processDataForTimeRange(daily, sess, range, now) ==
    FilterAndAggregate(daily, sess, range, WindowStart(range, now), now)

\* What a call leaves in the array it was passed as dailyData: filter
\* builds a new array, groupDataByPeriod pushes its items into arrays of its
\* own, and no statement writes to an item.
DailyAfterCall(daily, range, now) == daily

\* Faulty variant: the sort of line 149 applied to the array passed in.
SessionsSortedInPlace(sess, range, now) == SortRecent(sess)

\* What a call leaves in the array it was passed as sessions: filter builds
\* a new array, and that array is the one line 149 sorts in place; slice
\* copies, and no statement writes to a session.
SessionsAfterCall(sess, range, now) == sess

\* The raises of the library calls.  parseISO raises on a value that is no
\* string (date-fns 3: the split of an undefined value); format raises on an
\* Invalid Date.  No other statement of the function can raise: the
\* comparators, the reducers and the Map operations take any value.
ParseRaises(text) == text \in {UndefinedValue, NullValue}

FormatRaises(text) == ~parseISO(text).valid

\* Faulty variant: the block without its try, the raise leaves the callback.
Propagated(raised) == raised

\* try { block } catch { ... }: whether a raise of the block leaves the
\* callback.
Caught(raised) == FALSE

\* Whether a callback of filter raises over the items of an array.
FilterRaises(items) == \E i \in 1..Len(items) : Caught(ParseRaises(items[i].start_date))

\* Whether the forEach of groupDataByPeriod raises over the filtered items.
GroupRaises(items) ==
    \E i \in 1..Len(items) :
        Caught(ParseRaises(items[i].start_date) \/ FormatRaises(items[i].start_date))

\* Whether processDataForTimeRange raises instead of returning.
Raises(daily, sess, range, now) ==
    \/ FilterRaises(daily)
    \/ FilterRaises(sess)
    \/ GroupRaises(FilterDaily(daily, WindowStart(range, now), now))

(***************************************************************************)
(* generateFallbackData (src/app/page.tsx).  Every Math.random() of one    *)
(* call returns the same draw, the lowest (0) or the highest (just under   *)
(* 1).  A session's time of day (9:00 to 16:59) is taken as noon, the      *)
(* daytime instant of the model; quotients are rounded to the hundredth.   *)
(***************************************************************************)
Draws == {"low", "high"}

\* The bounds of the two loops, for (let i = 30; i >= 0; i--) and
\* for (let i = 0; i < 50; i++), scaled down: the arrays have
\* FallbackDays + 1 daily records and FallbackSessions sessions.
FallbackDays == 3

FallbackSessions == 5

\* Math.floor(Math.random() * 15) + 5
FallbackCount(draw) == IF draw = "low" THEN 5 ELSE 19

\* Math.floor(sessions * (0.95 + Math.random() * 0.05))
FallbackCompleted(draw) == IF draw = "low" THEN 4 ELSE 18

FallbackDaily(date, sessionCount, completed, draw) ==
    [start_date |-> date,
     total_sessions |-> sessionCount,
     total_duration_minutes |-> sessionCount * 850,
     avg_duration_minutes |-> 850,
     completed_sessions |-> completed,
     material_types |-> IF draw = "low" THEN 1 ELSE 3,
     success_rate |-> (20000 * completed + sessionCount) \div (2 * sessionCount),
     utilization_hours |-> (sessionCount * 850 + 30) \div 60,
     total_jobs |-> sessionCount]

\* date.setDate(date.getDate() - Math.floor(Math.random() * 30)), then
\* setHours(9 + Math.floor(Math.random() * 8), ...).
FallbackSession(id, day, draw) ==
    [session_id |-> id,
     session_start |-> NoonOfDay(day),
     start_date |-> TextOfDay(day),
     start_hour |-> IF draw = "low" THEN 9 ELSE 16,
     material_type |-> IF draw = "low" THEN "Pan Dental" ELSE "hyperDENT",
     status |-> IF draw = "low" THEN "Incomplete" ELSE "Completed",
     duration_minutes |-> IF draw = "low" THEN 500 ELSE 1499,
     job_count |-> 1]

generateFallbackData(now, draw) ==
    [dailyData |->
        [k \in 1..(FallbackDays + 1) |->
            FallbackDaily(TextOfDay(DayOf(now) - (FallbackDays + 1 - k)),
                          FallbackCount(draw), FallbackCompleted(draw), draw)],
     jobSessions |->
        [i \in 1..FallbackSessions |->
            FallbackSession(i, DayOf(now) - (IF draw = "low" THEN 0 ELSE 29), draw)]]

(***************************************************************************)
(* Inputs.  The record arrays a caller holds follow the declared types     *)
(* DailyData and JobSession (src/types/dental.ts); their start_date is     *)
(* any text.  Dates are taken around both ends of the window of the        *)
(* selected granularity.                                                   *)
(***************************************************************************)
MaxSessions == 2

EmptyText == ""

\* new Date(): a leap day (a Thursday) at midnight, and a Sunday at noon.
LeapDayMidnight == Instant(DayNumber(2024, 2, 29), 0)

SundayNoon == Instant(DayNumber(2024, 3, 10), 1)

Clocks == {LeapDayMidnight, SundayNoon}

SeqsUpTo(S, n) == UNION {[1..k -> S] : k \in 0..n}

Today(now) == TextOfDay(DayOf(now))

Yesterday(now) == TextOfDay(DayOf(now) - 1)

\* The day before the window's first day: always outside the window.
BeforeWindow(range, now) == TextOfDay(DayOf(WindowStart(range, now)) - 1)

DailySample(date, total, completed, hours) ==
    [start_date |-> date, total_sessions |-> total,
     completed_sessions |-> completed, utilization_hours |-> hours]

\* One daily record inside the window whose own rate (9 of 10) differs from
\* every rate the sessions can have.
OneDaily(now) == <<DailySample(Today(now), 10, 9, 250)>>

Statuses == {"Completed", "Incomplete", "In Progress", "Failed"}

StatusSessions(range, now) ==
    {[session_id |-> 1, session_start |-> EmptyText, start_date |-> date,
      start_hour |-> 9, material_type |-> "Pan Dental", status |-> status,
      duration_minutes |-> duration, job_count |-> jobCount] :
        date \in {Yesterday(now), BeforeWindow(range, now)},
        status \in Statuses,
        duration \in {3000},
        jobCount \in {1, 3}}

MaxWindowRecords == 3

\* Texts around both ends of the window, and two texts that name no day:
\* the day before the window's first day, that first day (in the window only
\* when now is at midnight), the day after it, today (at midnight: now
\* itself when now is at midnight), tomorrow, 2024-02-30 and the empty text.
WindowFirstDay(range, now) == TextOfDay(DayOf(WindowStart(range, now)))

AfterFirstDay(range, now) == TextOfDay(DayOf(WindowStart(range, now)) + 1)

Tomorrow(now) == TextOfDay(DayOf(now) + 1)

WindowTexts(range, now) ==
    {BeforeWindow(range, now), WindowFirstDay(range, now), AfterFirstDay(range, now),
     Today(now), Tomorrow(now), "2024-02-30", EmptyText}

RECURSIVE PowerOfTwo(_)
PowerOfTwo(n) == IF n = 0 THEN 1 ELSE 2 * PowerOfTwo(n - 1)

\* Daily records for a sequence of date texts; the record at position i has
\* utilization_hours 2^(i-1), so a sum of hours names the records summed.
DailyOfTexts(texts) ==
    [i \in 1..Len(texts) |-> DailySample(texts[i], 10, 9, 100 * PowerOfTwo(i - 1))]

\* Sessions for a sequence of date texts; session_id is the position.
SessionsOfTexts(texts) ==
    [i \in 1..Len(texts) |->
        [session_id |-> i, session_start |-> EmptyText, start_date |-> texts[i],
         start_hour |-> 9, material_type |-> "Pan Dental", status |-> "Completed",
         duration_minutes |-> 3000, job_count |-> 1]]

MaxDaily == 3

\* Texts for bucketing: today and yesterday, the day after the window's
\* first day, and one day outside the window.
ChartTexts(range, now) ==
    {Today(now), Yesterday(now), AfterFirstDay(range, now), BeforeWindow(range, now)}

\* total_sessions, completed_sessions and utilization_hours (hundredths):
\* 2 of 3 with 1.25 h, 1 of 4 with 0.07 h, and an idle day.
DailyRecords(range, now) ==
    {DailySample(date, v[1], v[2], v[3]) :
        date \in ChartTexts(range, now),
        v \in {<<3, 2, 125>>, <<4, 1, 7>>, <<0, 0, 0>>}}

MaxPeakSessions == 3

\* Sessions that differ in window membership, material_type and status.
MaterialSessions(range, now) ==
    {[session_id |-> 1, session_start |-> EmptyText, start_date |-> date,
      start_hour |-> 9, material_type |-> material, status |-> status,
      duration_minutes |-> 3000, job_count |-> 1] :
        date \in {Yesterday(now), BeforeWindow(range, now)},
        material \in {NullValue, UndefinedValue, "", "Pan Dental", "Zirconia"},
        status \in {"Completed", "Incomplete"}}

\* Sessions that differ in window membership, start hour and timestamp: the
\* effective timestamp is yesterday 00:00 (no session_start) or 12:00.
PeakSessions(range, now) ==
    {[session_id |-> 1, session_start |-> stamp, start_date |-> date,
      start_hour |-> hour, material_type |-> "Pan Dental", status |-> "Completed",
      duration_minutes |-> 3000, job_count |-> 1] :
        date \in {Yesterday(now), BeforeWindow(range, now)},
        stamp \in {EmptyText, NoonOfDay(DayOf(now) - 1)},
        hour \in {9, 10, 14}}

MaxCallSessions == 1

\* Clock readings of successive calls: the second is ten days after the
\* first, the third more than a month after it.
CallClocks ==
    {LeapDayMidnight, SundayNoon, Instant(DayNumber(2024, 4, 5), 0)}

CallSessions(range, now) ==
    {[session_id |-> 1, session_start |-> EmptyText, start_date |-> date,
      start_hour |-> 10, material_type |-> "Pan Dental", status |-> status,
      duration_minutes |-> 3000, job_count |-> 1] :
        date \in {Yesterday(now), BeforeWindow(range, now)},
        status \in {"Completed", "Incomplete"}}

MaxRows == 2

\* The header line of job_sessions.csv.
SessionHeader ==
    <<"session_id", ",", "session_start", ",", "start_date", ",", "start_hour", ",",
      "material_type", ",", "status", ",", "duration_minutes", ",", "job_count">>

\* The status cells of the documents: the three values of the type, one
\* more word, and 'Incomplete' in lower case.
StatusCells ==
    {<<"Completed">>, <<"Incomplete">>, <<"In", " ", "Progress">>, <<"Failed">>,
     <<"incomplete">>}

\* What a row of a document is written from: its start_date and its status
\* cell.
RowsWritten(range, now) ==
    [start_date : {Yesterday(now), BeforeWindow(range, now)}, status : StatusCells]

\* The line of a row: no session_start, start hour 9, a quoted material
\* with a comma in it, 30.5 minutes, one job.
SessionLine(k, row) ==
    <<ToString(k), ",", ",", row.start_date, ",", "9", ",",
      "\"", "Zirconia", ",", " ", "HT", "\"", ",">>
        \o row.status \o <<",", "30", ".", "5", ",", "1">>

RECURSIVE SessionLines(_, _)
SessionLines(rows, k) ==
    IF k > Len(rows) THEN << >>
    ELSE <<"\n">> \o SessionLine(k, rows[k]) \o SessionLines(rows, k + 1)

\* The text of the document: the header, a line per row, a final line break.
SessionDocument(rows) == SessionHeader \o SessionLines(rows, 1) \o <<"\n">>

\* The documents of the two parsers.  A document is written from a header
\* shape and a sequence of rows; a row has a start_date cell, the cell of
\* its numeric columns, and a shape: whole (a cell per column), short (the
\* first cell only), surplus (one cell more than the header) or blank (an
\* empty line).
MaxParseRows == 2

HeaderShapes == {"full", "dates", "numbers"}

BlankShapes == {"empty", "blank"}

NumberCells == {<<"7">>, <<"7", ".", "5">>, <<"abc">>, << >>}

ParseRows(now) ==
    [shape : {"whole"}, date : {Yesterday(now)}, number : NumberCells]
        \cup [shape : {"short", "surplus", "blank"}, date : {Yesterday(now)}, number : {<<"7">>}]
        \cup [shape : {"whole"}, date : {"n/a"}, number : {<<"7">>}]

\* The columns of a header shape: every column of the type, the text
\* columns only, or every column but start_date.
DailyColumns(header) ==
    CASE header = "full" ->
             <<"start_date", "total_sessions", "total_duration_minutes",
               "avg_duration_minutes", "completed_sessions", "material_types",
               "success_rate", "utilization_hours", "total_jobs">>
      [] header = "dates" -> <<"start_date">>
      [] header = "numbers" ->
             <<"total_sessions", "total_duration_minutes", "avg_duration_minutes",
               "completed_sessions", "material_types", "success_rate",
               "utilization_hours", "total_jobs">>

SessionColumns(header) ==
    CASE header = "full" ->
             <<"session_id", "session_start", "start_date", "start_hour",
               "material_type", "status", "duration_minutes", "job_count">>
      [] header = "dates" -> <<"start_date", "material_type", "status">>
      [] header = "numbers" -> <<"session_id", "start_hour", "duration_minutes", "job_count">>

\* The cell of row k under a column.
CellOf(column, k, row) ==
    CASE column = "session_id" -> <<ToString(k)>>
      [] column = "start_date" -> <<row.date>>
      [] column = "session_start" -> << >>
      [] column = "material_type" -> <<"Zirconia">>
      [] column = "status" -> <<"Completed">>
      [] OTHER -> row.number

RECURSIVE CommaJoin(_)
CommaJoin(cells) ==
    IF Len(cells) = 0 THEN << >>
    ELSE IF Len(cells) = 1 THEN cells[1]
    ELSE cells[1] \o <<",">> \o CommaJoin(Tail(cells))

CellsOf(columns, k, row) == [i \in 1..Len(columns) |-> CellOf(columns[i], k, row)]

LineOf(columns, k, row) ==
    CASE row.shape = "whole" -> CommaJoin(CellsOf(columns, k, row))
      [] row.shape = "short" -> CellOf(columns[1], k, row)
      [] row.shape = "surplus" -> CommaJoin(Append(CellsOf(columns, k, row), <<"extra">>))
      [] row.shape = "blank" -> << >>

RECURSIVE LinesOf(_, _, _)
LinesOf(columns, rows, k) ==
    IF k > Len(rows) THEN << >>
    ELSE <<"\n">> \o LineOf(columns, k, rows[k]) \o LinesOf(columns, rows, k + 1)

\* The text of a document: nothing, white space only, or the header line,
\* a line per row and a final line break.
DocumentOf(columns, rows) ==
    CommaJoin([i \in 1..Len(columns) |-> <<columns[i]>>]) \o LinesOf(columns, rows, 1) \o <<"\n">>

BlankDocument(header) == IF header = "empty" THEN << >> ELSE <<" ", "\n", " ">>

DailyDocument(doc) ==
    IF doc.header \in BlankShapes THEN BlankDocument(doc.header)
    ELSE DocumentOf(DailyColumns(doc.header), doc.rows)

JobSessionsDocument(doc) ==
    IF doc.header \in BlankShapes THEN BlankDocument(doc.header)
    ELSE DocumentOf(SessionColumns(doc.header), doc.rows)

\* The documents: a header and rows of which the last is no blank line, or
\* a blank document.
Documents(now) ==
    {doc \in [header : HeaderShapes, rows : SeqsUpTo(ParseRows(now), MaxParseRows)] :
        doc.rows # << >> => doc.rows[Len(doc.rows)].shape # "blank"}
        \cup [header : BlankShapes, rows : {<< >>}]

\* The one-line texts of parseCSV: up to MaxLineLen symbols among the
\* comma, the double quote, the space and two letters.
MaxLineLen == 5

LineSymbols == {",", "\"", " ", "A", "B"}

LineTexts == SeqsUpTo(LineSymbols, MaxLineLen)

(***************************************************************************)
(* The state machine.  sessionsText is the text of job_sessions.csv and    *)
(* written the rows it was written from, loaded whether the caller holds   *)
(* its arrays; dailyData and sessions are the arrays the caller holds,     *)
(* timeRange the granularity it passes, clock what new Date() returns;     *)
(* calls holds the calls made (at most the last two), each with its        *)
(* arguments, the time it read and the value it returned.                  *)
(***************************************************************************)
\* const sessions = parseJobSessions(sessionsText)
ParseSessions ==
    /\ ~loaded
    /\ pc \in {"off", "sessions"}
    /\ sessions' = parseJobSessions(sessionsText)
    /\ loaded' = TRUE
    /\ pc' = IF pc = "off" THEN "off" ELSE "parsed"
    /\ UNCHANGED <<sessionsText, written, dailyData, timeRange, clock, calls>>
    /\ UNCHANGED <<dailyText, parsedRows, pageVars>>
    /\ UNCHANGED jobsVars

CallRecord ==
    [daily |-> dailyData, sess |-> sessions, range |-> timeRange, now |-> clock,
     value |-> processDataForTimeRange(dailyData, sessions, timeRange, clock),
     raised |-> Raises(dailyData, sessions, timeRange, clock)]

\* parseDailyData(dailyText): the loader parses the daily document first.
ParseDaily ==
    /\ pc = "daily"
    /\ dailyData' = parseDailyData(dailyText)
    /\ pc' = "sessions"
    /\ UNCHANGED <<sessionsText, written, loaded, sessions, timeRange, clock, calls>>
    /\ UNCHANGED <<dailyText, parsedRows, pageVars>>
    /\ UNCHANGED jobsVars

\* processDataForTimeRange(dailyData, sessions, timeRange), first call.
Call ==
    /\ loaded
    /\ calls = << >>
    /\ calls' = <<CallRecord>>
    /\ dailyData' = DailyAfterCall(dailyData, timeRange, clock)
    /\ sessions' = SessionsAfterCall(sessions, timeRange, clock)
    /\ UNCHANGED <<sessionsText, written, loaded, timeRange, clock>>
    /\ UNCHANGED <<parseVars, pageVars>>
    /\ UNCHANGED jobsVars

\* A later call of processDataForTimeRange on the caller's arrays.
CallAgain ==
    /\ calls # << >>
    /\ calls' = <<calls[Len(calls)], CallRecord>>
    /\ dailyData' = DailyAfterCall(dailyData, timeRange, clock)
    /\ sessions' = SessionsAfterCall(sessions, timeRange, clock)
    /\ UNCHANGED <<sessionsText, written, loaded, timeRange, clock>>
    /\ UNCHANGED <<parseVars, pageVars>>
    /\ UNCHANGED jobsVars

\* Time passes between two calls.
Tick ==
    /\ \E t \in CallClocks : t > clock /\ clock' = t
    /\ UNCHANGED <<sessionsText, written, loaded, dailyData, sessions, timeRange, calls>>
    /\ UNCHANGED <<parseVars, pageVars>>
    /\ UNCHANGED jobsVars

\* The caller selects another granularity for its next call.
SelectRange ==
    /\ \E r \in TimeRanges \ {timeRange} : timeRange' = r
    /\ UNCHANGED <<sessionsText, written, loaded, dailyData, sessions, clock, calls>>
    /\ UNCHANGED <<parseVars, pageVars>>
    /\ UNCHANGED jobsVars

\* No page is mounted: the function is called by a caller of its own.
\* The jobs page is not mounted.
NoJobsPage ==
    /\ jobs = << >>
    /\ currentPage = 1
    /\ sortField = "session_start"
    /\ sortDirection = "desc"
    /\ filters = [type |-> "date", date |-> "", materialType |-> "", status |-> "", search |-> ""]

NoPage ==
    /\ NoJobsPage
    /\ server = << >>
    /\ fetched = << >>
    /\ csv = NullValue
    /\ loading = FALSE
    /\ error = NullValue
    /\ dashboardData = NullValue
    /\ pending = FALSE
    /\ origin = "caller"

\* The caller holds its arrays from the start.
InitWith(dailySeqs, sessionSeqs) ==
    /\ NoPage
    /\ dailyText = << >>
    /\ parsedRows = << >>
    /\ pc = "off"
    /\ sessionsText = << >>
    /\ written = << >>
    /\ loaded = TRUE
    /\ dailyData \in dailySeqs
    /\ sessions \in sessionSeqs
    /\ calls = << >>

Init ==
    /\ clock \in Clocks
    /\ timeRange \in TimeRanges
    /\ InitWith({<< >>, OneDaily(clock)},
                SeqsUpTo(StatusSessions(timeRange, clock), MaxSessions))

Next == Call

Spec == Init /\ [][Next]_vars

\* Inputs for the window filter: both arrays range over the texts around the
\* window, MaxWindowRecords records in all.
InitWindow ==
    /\ clock \in Clocks
    /\ timeRange \in TimeRanges
    /\ \E n \in 0..MaxWindowRecords, k \in 0..MaxWindowRecords :
          /\ n + k <= MaxWindowRecords
          /\ InitWith({DailyOfTexts(t) : t \in [1..n -> WindowTexts(timeRange, clock)]},
                      {SessionsOfTexts(t) : t \in [1..k -> WindowTexts(timeRange, clock)]})

SpecWindow == InitWindow /\ [][Next]_vars

\* Inputs for the material breakdown.
InitMaterial ==
    /\ clock \in Clocks
    /\ timeRange \in TimeRanges
    /\ InitWith({OneDaily(clock)},
                SeqsUpTo(MaterialSessions(timeRange, clock), MaxSessions))

SpecMaterial == InitMaterial /\ [][Next]_vars

\* Inputs for the peak hour.
InitPeak ==
    /\ clock = SundayNoon
    /\ timeRange \in TimeRanges
    /\ InitWith({<< >>}, SeqsUpTo(PeakSessions(timeRange, clock), MaxPeakSessions))

SpecPeak == InitPeak /\ [][Next]_vars

\* Repeated calls on one pair of arrays, at the same and at later times.
InitCalls ==
    /\ clock = LeapDayMidnight
    /\ timeRange \in TimeRanges
    /\ InitWith({<< >>, OneDaily(clock)},
                SeqsUpTo(CallSessions(timeRange, clock), MaxCallSessions))

NextCalls == Call \/ CallAgain \/ Tick \/ SelectRange

SpecCalls == InitCalls /\ [][NextCalls]_vars

\* The sessions are parsed from a document of up to MaxRows rows.
InitLoad ==
    /\ clock \in Clocks
    /\ timeRange \in TimeRanges
    /\ written \in SeqsUpTo(RowsWritten(timeRange, clock), MaxRows)
    /\ sessionsText = SessionDocument(written)
    /\ NoPage
    /\ dailyText = << >>
    /\ parsedRows = << >>
    /\ pc = "off"
    /\ loaded = FALSE
    /\ dailyData = OneDaily(clock)
    /\ sessions = << >>
    /\ calls = << >>

NextLoad == ParseSessions \/ Call

SpecLoad == InitLoad /\ [][NextLoad]_vars

\* Both documents are parsed, the daily one first, and the function is
\* called on the two arrays.  written is the header and the rows both
\* documents were written from.
InitParse ==
    /\ clock = SundayNoon
    /\ timeRange \in TimeRanges
    /\ written \in Documents(clock)
    /\ dailyText = DailyDocument(written)
    /\ sessionsText = JobSessionsDocument(written)
    /\ NoPage
    /\ parsedRows = << >>
    /\ pc = "daily"
    /\ loaded = FALSE
    /\ dailyData = << >>
    /\ sessions = << >>
    /\ calls = << >>

\* parseCSV is applied to a text of one line.
InitLine ==
    /\ clock = SundayNoon
    /\ timeRange = "daily"
    /\ written = << >>
    /\ dailyText = << >>
    /\ sessionsText \in LineTexts
    /\ NoPage
    /\ parsedRows = << >>
    /\ pc = "text"
    /\ loaded = FALSE
    /\ dailyData = << >>
    /\ sessions = << >>
    /\ calls = << >>

\* const rows = parseCSV(csvText)
ParseText ==
    /\ pc = "text"
    /\ parsedRows' = parseCSV(sessionsText)
    /\ pc' = "rows"
    /\ UNCHANGED <<sessionsText, written, loaded, dailyData, sessions, timeRange, clock, calls>>
    /\ UNCHANGED <<dailyText, pageVars>>
    /\ UNCHANGED jobsVars

NextLine == ParseText

SpecLine == InitLine /\ [][NextLine]_vars

NextParse == ParseDaily \/ ParseSessions \/ Call

SpecParse == InitParse /\ [][NextParse]_vars

(***************************************************************************)
(* The dashboard page (src/app/page.tsx) and loadCSVData.  server says,    *)
(* for each document, whether the server has it ("ok"), answers 404 with   *)
(* an error page ("missing") or cannot be reached ("unreachable"), and the *)
(* body of its answer; written is what the server's documents were written *)
(* from.  fetched lists the                                                *)
(* fetches started; dailyText and sessionsText are the texts handed to the *)
(* parsers; csv is the value loadCSVData builds and returns.  dailyData    *)
(* and sessions are the two arrays of rawData, loaded says rawData is not  *)
(* null, origin where rawData came from.  pending says the recompute       *)
(* effect is scheduled.  pc is the position of loadData: "mount" before    *)
(* the load effect has run, "daily" and "sessions" while a fetch is        *)
(* awaited, "returned" when loadCSVData has resolved, "done" at the end.   *)
(* The state updates of one continuation are committed together, and the   *)
(* effects of a render are flushed before the next event is handled.       *)
(***************************************************************************)
MaxFetches == 4

ServerStates == {"ok", "missing", "unreachable"}

\* The body of a 404 answer: a line of text, or a page of two lines.
NotFoundTexts ==
    {<<"Not", " ", "Found">>, <<"<!DOCTYPE", " ", "html>", "\n", "<h1>404</h1>">>}

\* The documents on the server: the full header and whole rows, with a
\* whole number or a word in the numeric cells.
ServerDocuments(now) ==
    {doc \in Documents(now) :
        /\ doc.header = "full"
        /\ \A k \in 1..Len(doc.rows) :
               doc.rows[k].shape = "whole" /\ doc.rows[k].number \in {<<"7">>, <<"abc">>}}

\* The bodies a server in a state can answer with, given the document.
Bodies(state, document) ==
    CASE state = "ok" -> {document}
      [] state = "missing" -> NotFoundTexts
      [] state = "unreachable" -> {<< >>}

\* The servers of the documents written from doc.
Servers(doc) ==
    {s \in [daily : ServerStates, sessions : ServerStates,
            dailyBody : {DailyDocument(doc)} \cup NotFoundTexts \cup {<< >>},
            sessionsBody : {JobSessionsDocument(doc)} \cup NotFoundTexts \cup {<< >>}] :
        /\ s.dailyBody \in Bodies(s.daily, DailyDocument(doc))
        /\ s.sessionsBody \in Bodies(s.sessions, JobSessionsDocument(doc))}

\* The dependency arrays of the two effects (lines 21 and 27).
LoadEffectOnRange == {"timeRange"}

LoadEffectDeps == { }

\* Faulty variant: the recompute effect depends on rawData alone.
RecomputeOnRawDataOnly == {"rawData"}

RecomputeEffectDeps == {"timeRange", "rawData"}

\* The value of the catch of loadCSVData.
\* Faulty variant: the catch keeps the daily records parsed before the
\* failure.
FailedLoadKeepingDaily ==
    [dailyData |-> parseDailyData(dailyText), jobSessions |-> << >>,
     error |-> "Failed to load data files"]

FailedLoad == [dailyData |-> << >>, jobSessions |-> << >>, error |-> "Failed to load data files"]

InitPage ==
    /\ clock = SundayNoon
    /\ timeRange = "daily"
    /\ written \in ServerDocuments(clock)
    /\ server \in Servers(written)
    /\ fetched = << >>
    /\ csv = NullValue
    /\ dailyText = << >>
    /\ sessionsText = << >>
    /\ parsedRows = << >>
    /\ pc = "mount"
    /\ loading = TRUE
    /\ error = NullValue
    /\ dashboardData = NullValue
    /\ pending = FALSE
    /\ origin = "none"
    /\ loaded = FALSE
    /\ dailyData = << >>
    /\ sessions = << >>
    /\ calls = << >>
    /\ NoJobsPage

\* The load effect: loadData up to the first await of loadCSVData.
LoadData ==
    /\ pc = "mount"
    /\ Len(fetched) < MaxFetches
    /\ loading' = TRUE
    /\ error' = NullValue
    /\ fetched' = Append(fetched, "daily")
    /\ pc' = "daily"
    /\ UNCHANGED <<sessionsText, written, loaded, dailyData, sessions, timeRange, clock, calls>>
    /\ UNCHANGED <<dailyText, parsedRows, server, csv, dashboardData, pending, origin>>
    /\ UNCHANGED jobsVars

\* The daily response has arrived with a text: it is parsed and the sessions
\* document is fetched.
DailyReceived(text) ==
    /\ dailyText' = text
    /\ csv' = [dailyData |-> parseDailyData(text), jobSessions |-> << >>, error |-> NullValue]
    /\ fetched' = Append(fetched, "sessions")
    /\ pc' = "sessions"

\* The continuation of loadCSVData after the first fetch: a rejected fetch
\* goes to the catch; any response, whatever its status, is read as text.
DailyFetched ==
    /\ pc = "daily"
    /\ \/ server.daily = "unreachable" /\ csv' = FailedLoad /\ pc' = "returned"
                                       /\ UNCHANGED <<dailyText, fetched>>
       \/ server.daily # "unreachable" /\ DailyReceived(server.dailyBody)
    /\ UNCHANGED <<sessionsText, written, loaded, dailyData, sessions, timeRange, clock, calls>>
    /\ UNCHANGED <<parsedRows, server, loading, error, dashboardData, pending, origin>>
    /\ UNCHANGED jobsVars

\* The sessions response has arrived with a text: it is parsed and
\* loadCSVData returns both arrays.
SessionsReceived(text) ==
    /\ sessionsText' = text
    /\ csv' = [dailyData |-> csv.dailyData, jobSessions |-> parseJobSessions(text), error |-> NullValue]
    /\ pc' = "returned"

SessionsFetched ==
    /\ pc = "sessions"
    /\ \/ server.sessions = "unreachable" /\ csv' = FailedLoad /\ pc' = "returned"
                                          /\ UNCHANGED sessionsText
       \/ server.sessions # "unreachable" /\ SessionsReceived(server.sessionsBody)
    /\ UNCHANGED <<written, loaded, dailyData, sessions, timeRange, clock, calls>>
    /\ UNCHANGED <<dailyText, parsedRows, server, fetched, loading, error, dashboardData, pending, origin>>
    /\ UNCHANGED jobsVars

\* Faulty variant: the data set is not stored.
RawDataNotSet(value, from) ==
    /\ UNCHANGED <<dailyData, sessions, loaded, origin, pending>>
    /\ pc' = "done"

\* setRawData(value), with the effects that depend on rawData scheduled.
SetRawData(value, from) ==
    /\ dailyData' = value.dailyData
    /\ sessions' = value.jobSessions
    /\ loaded' = TRUE
    /\ origin' = from
    /\ pending' = ("rawData" \in RecomputeEffectDeps \/ pending)
    /\ pc' = IF "rawData" \in LoadEffectDeps THEN "mount" ELSE "done"

\* The continuation of loadData after await loadCSVData(): the error branch
\* or the data branch, then finally.
LoadReturned ==
    /\ pc = "returned"
    /\ \/ /\ Truthy(csv.error)
          /\ error' = csv.error
          /\ \E draw \in Draws : SetRawData(generateFallbackData(clock, draw), "placeholder")
       \/ /\ ~Truthy(csv.error)
          /\ error' = error
          /\ SetRawData(csv, "parsed")
    /\ loading' = FALSE
    /\ UNCHANGED <<sessionsText, written, timeRange, clock, calls>>
    /\ UNCHANGED <<dailyText, parsedRows, server, fetched, csv, dashboardData>>
    /\ UNCHANGED jobsVars

\* The recompute effect: if (rawData) processData().
ProcessData ==
    /\ pending
    /\ pending' = FALSE
    /\ IF loaded
       THEN /\ calls' = <<CallRecord>>
            /\ dashboardData' = IF calls'[1].raised THEN dashboardData ELSE calls'[1].value
            /\ error' = IF calls'[1].raised THEN "Failed to process dashboard data" ELSE error
            /\ dailyData' = DailyAfterCall(dailyData, timeRange, clock)
            /\ sessions' = SessionsAfterCall(sessions, timeRange, clock)
       ELSE UNCHANGED <<calls, dashboardData, error, dailyData, sessions>>
    /\ UNCHANGED <<sessionsText, written, loaded, timeRange, clock>>
    /\ UNCHANGED <<parseVars, server, fetched, csv, loading, origin>>
    /\ UNCHANGED jobsVars

\* onRangeChange={setTimeRange}: the selector is rendered once loading is
\* false; a new value schedules the effects that depend on timeRange.
SetTimeRange ==
    /\ ~loading
    /\ ~pending
    /\ \E r \in TimeRanges \ {timeRange} : timeRange' = r
    /\ pending' = ("timeRange" \in RecomputeEffectDeps)
    /\ pc' = IF "timeRange" \in LoadEffectDeps THEN "mount" ELSE pc
    /\ UNCHANGED <<sessionsText, written, loaded, dailyData, sessions, clock, calls>>
    /\ UNCHANGED <<dailyText, parsedRows, server, fetched, csv, loading, error, dashboardData, origin>>
    /\ UNCHANGED jobsVars

NextPage ==
    LoadData \/ DailyFetched \/ SessionsFetched \/ LoadReturned \/ ProcessData \/ SetTimeRange

SpecPage == InitPage /\ [][NextPage]_vars

\* A step of the load: the steps of NextPage that move pc on from one of
\* these positions are those of LoadData, DailyFetched, SessionsFetched and
\* LoadReturned, and one of them is possible at each position.
LoadStep ==
    /\ pc \in {"mount", "daily", "sessions", "returned"}
    /\ pc' \in {"daily", "sessions", "returned", "done"}
    /\ pc' # pc

\* A run of the recompute effect: the steps of NextPage that clear pending
\* are those of ProcessData.
RecomputeStep == pending /\ pending' = FALSE

\* The page under its scheduler: React runs a mounted component's effects
\* after the render that scheduled them, and every fetch settles (it
\* resolves or rejects), after which the awaiting function is resumed.
SpecPageLive == SpecPage /\ WF_pc(LoadStep) /\ WF_pending(RecomputeStep)

MaxRecentSessions == 3

\* Sessions for the recent list: start_date yesterday, two days ago or
\* outside the window; session_start empty, the noon of yesterday, or a text
\* that names no instant.  session_id is the position.
RecentDates(range, now) ==
    {Yesterday(now), TextOfDay(DayOf(now) - 2), BeforeWindow(range, now)}

RecentStamps(now) == {EmptyText, NoonOfDay(DayOf(now) - 1), "n/a"}

RecentSession(id, date, stamp) ==
    [session_id |-> id, session_start |-> stamp, start_date |-> date,
     start_hour |-> 9, material_type |-> "Pan Dental", status |-> "Completed",
     duration_minutes |-> 3000, job_count |-> 1]

RecentSessions(range, now) ==
    UNION {{[i \in 1..n |-> RecentSession(i, dates[i], stamps[i])] :
                dates \in [1..n -> RecentDates(range, now)],
                stamps \in [1..n -> RecentStamps(now)]} : n \in 0..MaxRecentSessions}

\* Inputs for the recent sessions.
InitRecent ==
    /\ clock = SundayNoon
    /\ timeRange \in TimeRanges
    /\ InitWith({<< >>}, RecentSessions(timeRange, clock))

SpecRecent == InitRecent /\ [][Next]_vars

MaxBreakdownSessions == 3

\* Sessions for the breakdown order: three materials, in the window with
\* and without a session_start (so the order by timestamp is not the input
\* order) and outside the window.
BreakdownSessions(range, now) ==
    {[session_id |-> 1, session_start |-> when[2], start_date |-> when[1],
      start_hour |-> 9, material_type |-> material, status |-> "Completed",
      duration_minutes |-> 3000, job_count |-> 1] :
        when \in {<<Yesterday(now), EmptyText>>,
                  <<Yesterday(now), NoonOfDay(DayOf(now) - 1)>>,
                  <<BeforeWindow(range, now), EmptyText>>},
        material \in {"Pan Dental", "Zirconia", "hyperDENT"}}

\* Inputs for the order of the material breakdown.
InitBreakdown ==
    /\ clock = SundayNoon
    /\ timeRange \in TimeRanges
    /\ InitWith({<< >>}, SeqsUpTo(BreakdownSessions(timeRange, clock), MaxBreakdownSessions))

SpecBreakdown == InitBreakdown /\ [][Next]_vars

\* Inputs for the chart series: up to MaxDaily daily records, no sessions.
InitChart ==
    /\ clock = LeapDayMidnight
    /\ timeRange \in TimeRanges
    /\ InitWith(SeqsUpTo(DailyRecords(timeRange, clock), MaxDaily), {<< >>})

SpecChart == InitChart /\ [][Next]_vars

(***************************************************************************)
(* What the claims speak of, stated from the claims' words and not from    *)
(* the code's steps.                                                       *)
(***************************************************************************)
\* now - L: 30 days, 12 weeks, 12 months or 5 years before now, at now's
\* time of day; a day the earlier month lacks is its last day.
LookbackStart(range, now) ==
    LET day == DayOf(now)
        y == YearOf(day)
        m == MonthOf(day)
        d == DayOfMonth(day)
    IN  CASE range = "daily" -> now - 2 * 30
          [] range = "weekly" -> now - 2 * 7 * 12
          [] range = "monthly" -> Instant(DayNumber(y - 1, m, ClampDay(y - 1, m, d)), HalfOf(now))
          [] range = "yearly" -> Instant(DayNumber(y - 5, m, ClampDay(y - 5, m, d)), HalfOf(now))

\* The text names a calendar day (or an instant of one).
NamesADay(text) == text \in DateTexts

TimeOfText(text) == InstantOfText[text]

\* The text names a day d with start <= d <= now.
Within(text, start, now) ==
    /\ NamesADay(text)
    /\ start <= TimeOfText(text)
    /\ TimeOfText(text) <= now

\* The positions of a call's in-window sessions and in-window daily records.
SessionsIn(c) ==
    LET start == LookbackStart(c.range, c.now)
    IN  {i \in 1..Len(c.sess) : Within(c.sess[i].start_date, start, c.now)}

DailyIn(c) ==
    LET start == LookbackStart(c.range, c.now)
    IN  {i \in 1..Len(c.daily) : Within(c.daily[i].start_date, start, c.now)}

CompletedIn(c) == {i \in SessionsIn(c) : c.sess[i].status = "Completed"}

IncompleteIn(c) == {i \in SessionsIn(c) : c.sess[i].status = "Incomplete"}

Made == {calls[i] : i \in 1..Len(calls)}

\* The fraction f = <<n, d>> equals a / b.
FractionIs(f, a, b) == f[1] * b = a * f[2]

\* C1: for every granularity, a call with an empty dailyData array and an
\* empty sessions array returns zero totals, empty chartData,
\* materialBreakdown and recentSessions, and peakHour 9.
C1_EmptyInputZeroResult ==
    \A c \in Made :
        (c.daily = << >> /\ c.sess = << >>) =>
            /\ c.value.totalJobs = 0
            /\ FractionIs(c.value.successRate, 0, 1)
            /\ c.value.utilizationHours = 0
            /\ c.value.materialTypes = 0
            /\ FractionIs(c.value.avgDuration, 0, 1)
            /\ c.value.errorCount = 0
            /\ c.value.chartData = << >>
            /\ c.value.materialBreakdown = << >>
            /\ c.value.recentSessions = << >>
            /\ c.value.peakHour = 9

C1_Witness ==
    \E c \in Made : c.daily = << >> /\ c.sess = << >> /\ c.range = "yearly"

\* C6: totalJobs is the number of in-window sessions, whatever their
\* job_count; successRate is 0 when totalJobs = 0 and otherwise exactly
\* 100 x (in-window sessions with status 'Completed') / totalJobs; the daily
\* records have no part in either.
C6_SessionTotals ==
    \A c \in Made :
        /\ c.value.totalJobs = Cardinality(SessionsIn(c))
        /\ IF c.value.totalJobs = 0
           THEN FractionIs(c.value.successRate, 0, 1)
           ELSE FractionIs(c.value.successRate,
                           100 * Cardinality(CompletedIn(c)), c.value.totalJobs)

\* Two in-window sessions, one completed, with job_count other than 1, next
\* to an in-window daily record whose own rate is 90%.
C6_Witness ==
    \E c \in Made :
        /\ Cardinality(SessionsIn(c)) = 2
        /\ Cardinality(CompletedIn(c)) = 1
        /\ \E i \in SessionsIn(c) : c.sess[i].job_count = 3
        /\ DailyIn(c) # {}
        /\ c.value.successRate = <<50, 1>>

RECURSIVE SumOfSet(_, _)
SumOfSet(S, f) ==
    IF S = {} THEN 0
    ELSE LET x == CHOOSE y \in S : TRUE IN f[x] + SumOfSet(S \ {x}, f)

\* C3: a daily record or a session is kept if and only if its start_date
\* names a day d with now - L <= d <= now (L = 30 days, 12 weeks, 12 months,
\* 5 years), both ends included; a start_date that does not parse is left
\* out; both arrays are filtered by the same window.  The kept daily records
\* are read off utilizationHours (position i carries 2^(i-1) hours), the
\* kept sessions off totalJobs and recentSessions.
C3_WindowFilter ==
    \A c \in Made :
        /\ c.value.utilizationHours =
              SumOfSet(DailyIn(c), [i \in 1..Len(c.daily) |-> c.daily[i].utilization_hours])
        /\ c.value.totalJobs = Cardinality(SessionsIn(c))
        /\ {c.value.recentSessions[j].session_id : j \in 1..Len(c.value.recentSessions)}
              = {c.sess[i].session_id : i \in SessionsIn(c)}

\* A call at midnight that keeps the record dated exactly now - L and the
\* record dated exactly now, and drops a record that names no day.
C3_Witness ==
    \E c \in Made :
        /\ HalfOf(c.now) = 0
        /\ \E i \in DailyIn(c) : TimeOfText(c.daily[i].start_date) = LookbackStart(c.range, c.now)
        /\ \E i \in SessionsIn(c) : TimeOfText(c.sess[i].start_date) = c.now
        /\ \E i \in 1..Len(c.daily) : ~NamesADay(c.daily[i].start_date)
        /\ c.range = "monthly"

\* The grouping key of a date text under a granularity (the table of the
\* time-window selector): the calendar date as "MMM dd", the Sunday that
\* starts its week as "MMM dd", its month as "MMM yyyy", its year as "yyyy".
KeyOfText(text, range) ==
    LET date == CivilOfDay[DayOf(InstantOfText[text])]
        sunday == CivilOfDay[DayOf(InstantOfText[text]) - DayOfWeek(DayOf(InstantOfText[text]))]
    IN  CASE range = "daily" -> <<MonthNames[date[2]], date[3]>>
          [] range = "weekly" -> <<MonthNames[sunday[2]], sunday[3]>>
          [] range = "monthly" -> <<MonthNames[date[2]], date[1]>>
          [] range = "yearly" -> <<"", date[1]>>

\* The grouping key of every in-window daily record of call c.
Keys(c) == [i \in DailyIn(c) |-> KeyOfText(c.daily[i].start_date, c.range)]

\* The in-window daily records of call c whose grouping key is label.
Bucket(c, label) == {i \in DailyIn(c) : KeyOfText(c.daily[i].start_date, c.range) = label}

\* The sum of a field over the daily records of call c at the positions in
\* bucket.
BucketSum(c, bucket, field) ==
    SumOfSet(bucket, [i \in 1..Len(c.daily) |-> c.daily[i][field]])

\* r tenths is a / b rounded to one decimal: |r / 10 - a / b| <= 1 / 20.
IsRoundedTenths(r, a, b) == 2 * r * b - b <= 20 * a /\ 20 * a <= 2 * r * b + b

Points(c) == {c.value.chartData[j] : j \in 1..Len(c.value.chartData)}

\* C4: for every chart point, jobs is the sum of total_sessions over the
\* in-window daily records with the point's label; success_rate is 0 when
\* jobs = 0 and otherwise 100 x (sum of completed_sessions) / jobs rounded to
\* one decimal; utilization is the sum of their utilization_hours rounded to
\* one decimal.
C4_ChartPointValues ==
    \A c \in Made :
        LET keys == Keys(c)
        IN  \A p \in Points(c) :
                LET bucket == {i \in DOMAIN keys : keys[i] = p.date}
                IN  /\ p.jobs = BucketSum(c, bucket, "total_sessions")
                    /\ IF p.jobs = 0 THEN p.success_rate = 0
                       ELSE IsRoundedTenths(p.success_rate,
                                100 * BucketSum(c, bucket, "completed_sessions"), p.jobs)
                    /\ IsRoundedTenths(p.utilization,
                                       BucketSum(c, bucket, "utilization_hours"), 100)

\* A bucket of two records (3 + 4 sessions, 2 + 1 completed, 1.25 h + 0.07 h)
\* gives 7 jobs, 42.9 % and 1.3 h; another bucket has no jobs.
C4_Witness ==
    \E c \in Made :
        /\ \E p \in Points(c) :
              /\ Cardinality(Bucket(c, p.date)) = 2
              /\ p.jobs = 7 /\ p.success_rate = 429 /\ p.utilization = 13
        /\ \E p \in Points(c) : p.jobs = 0

\* C5: chartData holds exactly one point for each label that occurs among
\* the in-window daily records, and its points are in strictly ascending
\* order of their label.
C5_OnePointPerLabelAscending ==
    \A c \in Made :
        /\ LET keys == Keys(c)
           IN  {p.date : p \in Points(c)} = {keys[i] : i \in DOMAIN keys}
        /\ \A j \in 1..(Len(c.value.chartData) - 1) :
              localeCompare(c.value.chartData[j].date, c.value.chartData[j + 1].date) < 0

\* Three in-window records, two of them in one bucket, met in descending
\* label order.
C5_Witness ==
    \E c \in Made :
        /\ Cardinality(DailyIn(c)) = 3
        /\ Len(c.value.chartData) = 2
        /\ localeCompare(KeyOfText(c.daily[1].start_date, c.range),
                         KeyOfText(c.daily[3].start_date, c.range)) > 0

\* The in-window sessions of call c with a non-empty material_type.
WithMaterial(c) ==
    {i \in SessionsIn(c) : c.sess[i].material_type \notin {NullValue, UndefinedValue, ""}}

Entries(c) == {c.value.materialBreakdown[j] : j \in 1..Len(c.value.materialBreakdown)}

\* C7: an in-window session whose material_type is null, absent or empty
\* counts in totalJobs and successRate and in no materialBreakdown entry: an
\* entry's count is the number of in-window sessions of its material, the
\* counts sum to the number of in-window sessions with a non-empty
\* material_type, every count is at least 1, and materialTypes is the number
\* of entries, one for each distinct non-empty material type.
C7_MaterialBreakdown ==
    \A c \in Made :
        /\ c.value.totalJobs = Cardinality(SessionsIn(c))
        /\ c.value.totalJobs > 0 =>
              FractionIs(c.value.successRate,
                         100 * Cardinality(CompletedIn(c)), c.value.totalJobs)
        /\ \A e \in Entries(c) :
              /\ e.count >= 1
              /\ e.count = Cardinality({i \in WithMaterial(c) : c.sess[i].material_type = e.material})
        /\ SumOfSet(1..Len(c.value.materialBreakdown),
                    [j \in 1..Len(c.value.materialBreakdown) |->
                        c.value.materialBreakdown[j].count])
              = Cardinality(WithMaterial(c))
        /\ c.value.materialTypes = Len(c.value.materialBreakdown)
        /\ c.value.materialTypes
              = Cardinality({c.sess[i].material_type : i \in WithMaterial(c)})

\* A completed in-window session with material_type null next to one with a
\* material: two jobs, 100 %, one breakdown entry of count 1.
C7_Witness ==
    \E c \in Made :
        /\ Cardinality(SessionsIn(c)) = 2
        /\ \E i \in SessionsIn(c) : c.sess[i].material_type = NullValue
        /\ c.value.totalJobs = 2
        /\ c.value.successRate = <<100, 1>>
        /\ Len(c.value.materialBreakdown) = 1

\* The number of in-window sessions of call c that start in hour h.
HourCount(c, h) == Cardinality({i \in SessionsIn(c) : c.sess[i].start_hour = h})

\* C8: with at least one in-window session, peakHour is a start_hour of an
\* in-window session and no hour has more in-window sessions; with none,
\* peakHour is 9.
C8_PeakHourIsMaximal ==
    \A c \in Made :
        LET in == SessionsIn(c)
            peak == Cardinality({k \in in : c.sess[k].start_hour = c.value.peakHour})
        IN  IF in = {} THEN c.value.peakHour = 9
            ELSE /\ peak >= 1
                 /\ \A i \in in :
                       Cardinality({k \in in : c.sess[k].start_hour = c.sess[i].start_hour})
                           <= peak

\* Hours 9, 10, 10 in the window: the peak is 10 although the reduce starts
\* from hour 9.
C8_Witness ==
    \E c \in Made :
        /\ HourCount(c, 9) = 1
        /\ HourCount(c, 10) = 2
        /\ c.value.peakHour = 10

\* The in-window sessions whose hour has the highest count.
AtPeak(c) ==
    {i \in SessionsIn(c) :
        \A k \in SessionsIn(c) :
            HourCount(c, c.sess[k].start_hour) <= HourCount(c, c.sess[i].start_hour)}

\* C9: when several hours tie for the highest count, peakHour is the tied
\* hour whose first appearance among the in-window sessions is the earliest,
\* also when hour 9 is one of the tied hours.
C9_TieGoesToFirstAppearance ==
    \A c \in Made :
        SessionsIn(c) # {} =>
            c.value.peakHour
                = c.sess[CHOOSE i \in AtPeak(c) : \A k \in AtPeak(c) : i <= k].start_hour

\* C10: errorCount is the number of in-window sessions whose status is
\* exactly 'Incomplete'; the mapper keeps every status cell as written (the
\* trimmed text), also one outside the three values of the type; such a
\* session counts in totalJobs and neither as completed nor as an error, so
\* completed + errorCount <= totalJobs.
C10_ErrorCountAndStatuses ==
    /\ loaded =>
          /\ Len(sessions) = Len(written)
          /\ \A k \in 1..Len(written) : sessions[k].status = Join(Trim(written[k].status))
    /\ \A c \in Made :
          /\ c.value.errorCount = Cardinality(IncompleteIn(c))
          /\ c.value.totalJobs = Cardinality(SessionsIn(c))
          /\ c.value.totalJobs > 0 =>
                FractionIs(c.value.successRate,
                           100 * Cardinality(CompletedIn(c)), c.value.totalJobs)
          /\ Cardinality(CompletedIn(c)) + c.value.errorCount <= c.value.totalJobs

\* A parsed document with an 'In Progress' row and an 'Incomplete' row in
\* the window: two jobs, one error, none completed.
C10_Witness ==
    \E c \in Made :
        /\ Len(written) = 2
        /\ written[1].status = <<"In", " ", "Progress">>
        /\ c.sess[1].status = "In Progress"
        /\ c.sess[2].status = "Incomplete"
        /\ c.value.totalJobs = 2
        /\ c.value.errorCount = 1
        /\ c.value.successRate = <<0, 1>>

\* The effective timestamp of a session: the instant its session_start
\* names when that is non-empty, otherwise the instant of its start_date.
StampText(s) == IF s.session_start # "" THEN s.session_start ELSE s.start_date

\* Session a is not earlier than session b; a text that names no instant
\* is neither earlier nor later than any other.
NotEarlier(a, b) ==
    (NamesADay(StampText(a)) /\ NamesADay(StampText(b)))
        => TimeOfText(StampText(a)) >= TimeOfText(StampText(b))

\* C11: recentSessions holds in-window sessions only, min(10, totalJobs) of
\* them, in order of non-increasing effective timestamp, and no in-window
\* session left out is later than one that is in.
C11_RecentSessions ==
    \A c \in Made :
        LET recent == c.value.recentSessions
            in == SessionsIn(c)
            ids == {recent[j].session_id : j \in 1..Len(recent)}
        IN  /\ \A j \in 1..Len(recent) :
                  recent[j].session_id \in in /\ recent[j] = c.sess[recent[j].session_id]
            /\ Len(recent) = (IF c.value.totalJobs < 10 THEN c.value.totalJobs ELSE 10)
            /\ \A j, k \in 1..Len(recent) : j < k => NotEarlier(recent[j], recent[k])
            /\ \A i \in in \ ids : \A j \in 1..Len(recent) : NotEarlier(recent[j], c.sess[i])

\* The position at which a material is first met among the in-window
\* sessions of call c, in input order.
FirstMet(c, material) ==
    CHOOSE i \in WithMaterial(c) :
        /\ c.sess[i].material_type = material
        /\ \A k \in WithMaterial(c) : c.sess[k].material_type = material => i <= k

\* C12: materialBreakdown is in order of non-increasing count, and of two
\* materials with equal counts the one first met among the in-window
\* sessions, in input order, comes first.
C12_BreakdownOrder ==
    \A c \in Made :
        LET b == c.value.materialBreakdown
        IN  \A j, k \in 1..Len(b) :
                j < k =>
                    /\ b[j].count >= b[k].count
                    /\ b[j].count = b[k].count =>
                          FirstMet(c, b[j].material) < FirstMet(c, b[k].material)

\* Three in-window sessions of three materials, the second one the latest
\* by timestamp: a three-way tie, kept in the order the materials were met.
C12_Witness ==
    \E c \in Made :
        LET b == c.value.materialBreakdown
        IN  /\ Len(b) = 3
            /\ Cardinality(SessionsIn(c)) = 3
            /\ \A j \in 1..3 : b[j].count = 1 /\ b[j].material = c.sess[j].material_type
            /\ c.sess[1].session_start = EmptyText
            /\ c.sess[2].session_start # EmptyText
            /\ b[1].material = "Zirconia"

WholeOf(cell) == IF cell # << >> /\ cell[1] = "7" THEN 7 ELSE 0

\* The value in hundredths a numeric cell of the documents stands for.
HundredthsOf(cell) ==
    IF cell = <<"7">> THEN 700 ELSE IF cell = <<"7", ".", "5">> THEN 750 ELSE 0

\* Whether a header shape has a column.
HasColumn(columns, column) == \E i \in 1..Len(columns) : columns[i] = column

\* Whether a written row has a cell in the position of a column.
HasCell(columns, row, column) ==
    \/ row.shape \in {"whole", "surplus"} /\ HasColumn(columns, column)
    \/ row.shape = "short" /\ columns[1] = column

\* C13: parseDailyData and parseJobSessions return one record per line that
\* follows the header line, in the order of the lines: record k carries the
\* cells written in line k, and a line with an unparsable cell, with cells
\* missing or with a cell too many has its record like any other.
C13_OneRecordPerLine ==
    written.header \in HeaderShapes =>
        /\ pc \in {"sessions", "parsed"} =>
              /\ Len(dailyData) = Len(written.rows)
              /\ \A k \in 1..Len(written.rows) :
                     /\ HasCell(DailyColumns(written.header), written.rows[k], "start_date")
                            => dailyData[k].start_date = written.rows[k].date
                     /\ HasCell(DailyColumns(written.header), written.rows[k], "total_sessions")
                            => dailyData[k].total_sessions = WholeOf(written.rows[k].number)
        /\ pc = "parsed" =>
              /\ Len(sessions) = Len(written.rows)
              /\ \A k \in 1..Len(written.rows) :
                     /\ HasCell(SessionColumns(written.header), written.rows[k], "session_id")
                            => sessions[k].session_id = k
                     /\ HasCell(SessionColumns(written.header), written.rows[k], "start_date")
                            => sessions[k].start_date = written.rows[k].date

\* Both documents parsed, written from a row that lacks cells and a row
\* with a cell too many.
C13_Witness ==
    /\ pc = "parsed"
    /\ written.header = "full"
    /\ Len(written.rows) = 2
    /\ written.rows[1].shape = "short"
    /\ written.rows[2].shape = "surplus"
    /\ Len(dailyData) = 2
    /\ Len(sessions) = 2
    /\ sessions[2].session_id = 2

\* The numeric fields of the two record shapes.
DailyNumbers == DailyIntegers \cup DailyReals

SessionNumbers == {"session_id", "start_hour", "job_count", "duration_minutes"}

\* The number a numeric field takes from the cell written for it; 0 for an
\* unparsable or empty cell.
NumberOf(field, cell) ==
    IF field \in DailyReals \cup {"duration_minutes"} THEN HundredthsOf(cell) ELSE WholeOf(cell)

\* C14: every record of parseDailyData and of parseJobSessions carries each
\* of its numeric fields as a number, never undefined: the number of the
\* cell where the line has a parsable cell for the field, 0 where the cell
\* is unparsable or the field is absent from the document.
C14_NumericFieldsAreNumbers ==
    written.header \in HeaderShapes =>
        /\ pc \in {"sessions", "parsed"} =>
              \A k \in 1..Len(dailyData) : \A field \in DailyNumbers :
                  /\ dailyData[k][field] # Undefined
                  /\ dailyData[k][field] =
                         IF HasCell(DailyColumns(written.header), written.rows[k], field)
                         THEN NumberOf(field, written.rows[k].number) ELSE 0
        /\ pc = "parsed" =>
              \A k \in 1..Len(sessions) : \A field \in SessionNumbers \ {"session_id"} :
                  /\ sessions[k][field] # Undefined
                  /\ sessions[k][field] =
                         IF HasCell(SessionColumns(written.header), written.rows[k], field)
                         THEN NumberOf(field, written.rows[k].number) ELSE 0

\* The positions of the double quotes and of the commas of a text, and the
\* commas with an even number of double quotes in front of them.
QuotesBefore(text, i) == Cardinality({j \in 1..(i - 1) : text[j] = "\""})

SplitPoints(text) == {i \in 1..Len(text) : text[i] = "," /\ QuotesBefore(text, i) % 2 = 0}

\* The j-th stretch of a text between two neighbouring split points (the
\* ends of the text included), its double quotes left out.
StretchStart(text, j) ==
    IF j = 1 THEN 1
    ELSE 1 + CHOOSE i \in SplitPoints(text) :
                 Cardinality({p \in SplitPoints(text) : p <= i}) = j - 1

StretchEnd(text, j) ==
    IF j = Cardinality(SplitPoints(text)) + 1 THEN Len(text)
    ELSE (CHOOSE i \in SplitPoints(text) :
              Cardinality({p \in SplitPoints(text) : p <= i}) = j) - 1

Stretch(text, j) ==
    SelectSeq(SubSeq(text, StretchStart(text, j), StretchEnd(text, j)),
              LAMBDA char : char # "\"")

\* A text without the spaces at its two ends.
Inner(text) ==
    LET kept == {i \in 1..Len(text) : text[i] # " "}
    IN  IF kept = {} THEN << >>
        ELSE SubSeq(text, CHOOSE i \in kept : \A k \in kept : i <= k,
                          CHOOSE i \in kept : \A k \in kept : k <= i)

\* C15: parseCSV splits a line at the commas that have an even number of
\* double quotes in front of them and at no other comma, so that a quoted
\* span with commas in it stays one field; every field comes without white
\* space at its ends and without the double quotes.
C15_SplitsOutsideQuotes ==
    pc = "rows" =>
        /\ Len(parsedRows) = 1
        /\ Len(parsedRows[1]) = Cardinality(SplitPoints(sessionsText)) + 1
        /\ \A j \in 1..Len(parsedRows[1]) :
               /\ parsedRows[1][j] = Inner(Stretch(sessionsText, j))
               /\ parsedRows[1][j] # << >> =>
                      /\ Head(parsedRows[1][j]) # " "
                      /\ parsedRows[1][j][Len(parsedRows[1][j])] # " "

\* The line "A,B" in double quotes, parsed to the single field A,B.
C15_Witness ==
    /\ pc = "rows"
    /\ sessionsText = <<"\"", "A", ",", "B", "\"">>
    /\ parsedRows = <<<<<<"A", ",", "B">>>>>>

\* C16: for a document of a header line only and for a blank document (no
\* text, or white space only) parseDailyData and parseJobSessions each
\* return the empty array.
C16_NoRowsNoRecords ==
    written.rows = << >> =>
        /\ pc \in {"sessions", "parsed"} => dailyData = << >>
        /\ pc = "parsed" => sessions = << >>

\* Both parsers have returned on a document of white space only.
C16_Witness ==
    /\ pc = "parsed"
    /\ written.header = "blank"
    /\ dailyText = <<" ", "\n", " ">>
    /\ sessionsText = <<" ", "\n", " ">>
    /\ dailyData = << >>
    /\ sessions = << >>

Unobtainable ==
    \/ server.daily # "ok"
    \/ server.sessions # "ok"

\* C18: whenever a document cannot be obtained (its fetch rejects, or the
\* server does not have it), the load ends with the error notice set and
\* with generated placeholder data in rawData, and the text of a failed
\* retrieval is never handed to a parser.
C18_FailedLoadFallsBack ==
    /\ dailyText \notin NotFoundTexts
    /\ sessionsText \notin NotFoundTexts
    /\ pc = "done" /\ Unobtainable =>
           /\ Truthy(error)
           /\ origin = "placeholder"
           /\ \E draw \in Draws :
                  /\ dailyData = generateFallbackData(clock, draw).dailyData
                  /\ sessions = generateFallbackData(clock, draw).jobSessions

\* C19: each document is fetched once, when the page mounts.  Once rawData
\* is loaded no step starts a fetch or changes rawData; a change of
\* timeRange schedules the recomputation and leaves the loader where it is;
\* the recomputation sets dashboardData to the result over the loaded
\* rawData for the current timeRange.
C19_FetchedOnceAtMount ==
    /\ [](fetched \in {<< >>, <<"daily">>, <<"daily", "sessions">>})
    /\ [][/\ loaded => /\ fetched' = fetched
                       /\ dailyData' = dailyData
                       /\ sessions' = sessions
                       /\ loaded'
          /\ timeRange' # timeRange => pending' /\ fetched' = fetched /\ pc' = pc
          /\ pending /\ ~pending' =>
                 dashboardData' = processDataForTimeRange(dailyData, sessions, timeRange, clock)
         ]_vars

\* Both documents fetched and parsed, the granularity changed to yearly and
\* the result recomputed for it over the two loaded records.
C19_Witness ==
    /\ pc = "done"
    /\ ~pending
    /\ timeRange = "yearly"
    /\ origin = "parsed"
    /\ fetched = <<"daily", "sessions">>
    /\ Len(dailyData) = 2
    /\ Len(sessions) = 2
    /\ calls[1].range = "yearly"
    /\ dashboardData = calls[1].value
    /\ dashboardData.totalJobs = 2

\* Two session lists that differ in nothing but their timestamps, with the
\* same positions in the window of call c.
SameButTimestamps(c, a, b) ==
    /\ Len(a) = Len(b)
    /\ \A i \in 1..Len(a) :
           /\ [a[i] EXCEPT !.session_start = "", !.start_date = ""]
                  = [b[i] EXCEPT !.session_start = "", !.start_date = ""]
           /\ Within(a[i].start_date, LookbackStart(c.range, c.now), c.now)
                  <=> Within(b[i].start_date, LookbackStart(c.range, c.now), c.now)

\* C21: peakHour depends on the start_hour values of the in-window sessions
\* in input order only: a session list that differs from the one of a call
\* in its session_start / start_date texts alone, with the same sessions in
\* the window, gives the same peakHour at the same time.
C21_PeakHourIgnoresTimestamps ==
    \A c \in Made :
        \A other \in SeqsUpTo(PeakSessions(c.range, c.now), Len(c.sess)) :
            SameButTimestamps(c, c.sess, other) =>
                processDataForTimeRange(c.daily, other, c.range, c.now).peakHour
                    = c.value.peakHour

\* The period start a date text's label is formatted from: the day itself,
\* the start of its week, of its month or of its year.
PeriodStart(text, range) ==
    CASE range = "daily" -> TimeOfText(text)
      [] range = "weekly" -> startOfWeek(TimeOfText(text))
      [] range = "monthly" -> startOfMonth(TimeOfText(text))
      [] range = "yearly" -> startOfYear(TimeOfText(text))

\* C22: for every granularity the points of chartData are in chronological
\* order of the period start of their buckets: a record of an earlier point
\* starts its period before every record of a later point.
C22_ChartChronological ==
    \A c \in Made :
        \A j \in 1..Len(c.value.chartData), k \in 1..Len(c.value.chartData) :
            j < k =>
                \A a \in Bucket(c, c.value.chartData[j].date),
                   b \in Bucket(c, c.value.chartData[k].date) :
                    PeriodStart(c.daily[a].start_date, c.range)
                        < PeriodStart(c.daily[b].start_date, c.range)

(***************************************************************************)
(* The jobs page (src/app/jobs/page.tsx).  toLowerCase, includes and the < *)
(* of strings are computed on the sequence of characters of a text, which  *)
(* the table Chars gives for every text of the jobs page.                  *)
(***************************************************************************)
\* Rows per page.  The page shows 25; the model shows 2, so that a handful
\* of jobs fills more pages than the five page-number buttons.
ITEMS_PER_PAGE == 2

MaxJobs == 11

UpperCase == <<"A", "B", "C", "D", "E", "F", "G", "H", "I", "J", "K", "L", "M", "N", "O", "P", "Q", "R", "S", "T", "U", "V", "W", "X", "Y", "Z">>

LowerCase == <<"a", "b", "c", "d", "e", "f", "g", "h", "i", "j", "k", "l", "m", "n", "o", "p", "q", "r", "s", "t", "u", "v", "w", "x", "y", "z">>

Digits == <<"0", "1", "2", "3", "4", "5", "6", "7", "8", "9">>

\* The characters in the order of their UTF-16 code units: space, digits,
\* upper case, lower case.
CodeUnits == <<" ">> \o Digits \o UpperCase \o LowerCase

CodeUnit(char) == CHOOSE i \in 1..Len(CodeUnits) : CodeUnits[i] = char

\* String.prototype.toLowerCase
toLowerCase(text) ==
    [i \in 1..Len(text) |->
        IF \E k \in 1..Len(UpperCase) : UpperCase[k] = text[i]
        THEN LowerCase[CHOOSE k \in 1..Len(UpperCase) : UpperCase[k] = text[i]]
        ELSE text[i]]

\* String.prototype.includes
includes(text, part) ==
    \E i \in 0..(Len(text) - Len(part)) : SubSeq(text, i + 1, i + Len(part)) = part

\* Number.prototype.toString for a non-negative integer.
RECURSIVE toString(_)
toString(n) ==
    IF n < 10 THEN <<Digits[n + 1]>> ELSE Append(toString(n \div 10), Digits[(n % 10) + 1])

\* a < b on two strings: the first differing code unit decides, a proper
\* prefix is smaller.
RECURSIVE StringLess(_, _)
StringLess(a, b) ==
    IF b = << >> THEN FALSE
    ELSE IF a = << >> THEN TRUE
    ELSE IF a[1] # b[1] THEN CodeUnit(a[1]) < CodeUnit(b[1])
    ELSE StringLess(Tail(a), Tail(b))

PanDental == <<"P", "a", "n", " ", "D", "e", "n", "t", "a", "l">>

DentureCare == <<"D", "e", "n", "t", "u", "r", "e", " ", "C", "a", "r", "e">>

HyperDent == <<"h", "y", "p", "e", "r", "D", "E", "N", "T">>

Completed == <<"C", "o", "m", "p", "l", "e", "t", "e", "d">>

Incomplete == <<"I", "n", "c", "o", "m", "p", "l", "e", "t", "e">>

InProgress == <<"I", "n", " ", "P", "r", "o", "g", "r", "e", "s", "s">>

\* The characters of the texts of the jobs page: material types, material
\* colours, statuses, and the values of the text filters.
Chars ==
    ("" :> << >>) @@ ("Pan Dental" :> PanDental) @@ ("Denture Care" :> DentureCare)
    @@ ("hyperDENT" :> HyperDent) @@ ("Completed" :> Completed)
    @@ ("Incomplete" :> Incomplete) @@ ("In Progress" :> InProgress)
    @@ ("A1" :> <<"A", "1">>) @@ ("WhiteWax" :> <<"W", "h", "i", "t", "e", "W", "a", "x">>)
    @@ ("100" :> <<"1", "0", "0">>)

\* text.toLowerCase() for every text of the table.
LowerChars == [text \in DOMAIN Chars |-> toLowerCase(Chars[text])]

\* endOfWeek, endOfMonth, endOfYear: the last instant of the period's last
\* day (its second half-day).
endOfWeek(t) == Instant(DayOf(startOfWeek(t)) + 6, 1)

endOfMonth(t) == Instant(DayOf(startOfMonth(t)) + DaysInMonth(YearOf(DayOf(t)), MonthOf(DayOf(t))) - 1, 1)

endOfYear(t) == Instant(DaysBeforeYear(YearOf(DayOf(t)) + 1) - 1, 1)

\* format(jobDate, 'yyyy-MM-dd') of a valid date.
formatyyyyMMdd(t) == TextOfDay(DayOf(t))

\* The date/time filter: the predicate of the first filter for a job, read
\* under filters.type.  The jobs of the model carry start_date texts that
\* name a day.
MatchesDate(job, f) ==
    CASE f.type = "date" -> formatyyyyMMdd(parseISO(job.start_date).time) = f.date
      [] f.type = "week" ->
            isWithinInterval(parseISO(job.start_date),
                             startOfWeek(parseISO(f.date).time), endOfWeek(parseISO(f.date).time))
      [] f.type = "month" ->
            isWithinInterval(parseISO(job.start_date),
                             startOfMonth(parseISO(f.date).time), endOfMonth(parseISO(f.date).time))
      [] f.type = "year" ->
            isWithinInterval(parseISO(job.start_date),
                             startOfYear(parseISO(f.date).time), endOfYear(parseISO(f.date).time))

\* job.material_type?.toLowerCase().includes(filters.materialType.toLowerCase())
MatchesMaterial(job, f) == includes(LowerChars[job.material_type], LowerChars[f.materialType])

MatchesStatus(job, f) == job.status = f.status

\* The search filter: material type, material colour, status or session id
\* contains the lower-cased search text.
MatchesSearch(job, f) ==
    \/ includes(LowerChars[job.material_type], LowerChars[f.search])
    \/ includes(LowerChars[job.material_color], LowerChars[f.search])
    \/ includes(LowerChars[job.status], LowerChars[f.search])
    \/ includes(toString(job.session_id), LowerChars[f.search])

\* Each `if (filters.x)` wraps one Array.prototype.filter; an empty filter
\* value leaves `filtered` as it is.
Filtered(list, f) ==
    SelectSeq(list, LAMBDA job :
        /\ f.date # "" => MatchesDate(job, f)
        /\ f.materialType # "" => MatchesMaterial(job, f)
        /\ f.status # "" => MatchesStatus(job, f)
        /\ f.search # "" => MatchesSearch(job, f))

\* `let filtered = jobs`: when no filter value is set, no filter call has
\* replaced `filtered`, and it still is the jobs array of the state.
IsTheJobsArray(f) ==
    f.date = "" /\ f.materialType = "" /\ f.status = "" /\ f.search = ""

\* aValue < bValue for the sort field: time values for session_start (a NaN
\* compares false), numbers for duration_minutes, strings otherwise.
JobLess(field, a, b) ==
    CASE field = "session_start" ->
            /\ EffectiveDate(a).valid /\ EffectiveDate(b).valid
            /\ EffectiveDate(a).time < EffectiveDate(b).time
      [] field = "duration_minutes" -> a.duration_minutes < b.duration_minutes
      [] OTHER -> StringLess(Chars[a[field]], Chars[b[field]])

\* The comparator of filtered.sort.
JobComparator(field, direction, a, b) ==
    IF JobLess(field, a, b) THEN (IF direction = "asc" THEN -1 ELSE 1)
    ELSE IF JobLess(field, b, a) THEN (IF direction = "asc" THEN 1 ELSE -1)
    ELSE 0

RECURSIVE InsertJob(_, _, _, _)
InsertJob(field, direction, sorted, x) ==
    IF sorted = << >> THEN <<x>>
    ELSE IF JobComparator(field, direction, sorted[Len(sorted)], x) > 0
         THEN Append(InsertJob(field, direction, SubSeq(sorted, 1, Len(sorted) - 1), x),
                     sorted[Len(sorted)])
         ELSE Append(sorted, x)

\* filtered.sort(...): a stable sort.
RECURSIVE SortJobs(_, _, _)
SortJobs(field, direction, list) ==
    IF list = << >> THEN << >>
    ELSE InsertJob(field, direction,
                   SortJobs(field, direction, SubSeq(list, 1, Len(list) - 1)), list[Len(list)])

\* filteredAndSortedJobs: the value of the memo.
filteredAndSortedJobs(list, f, field, direction) ==
    SortJobs(field, direction, Filtered(list, f))

\* The jobs array of the state after the memo has been computed: sort works
\* in place on `filtered`.
JobsAfterMemo(list, f, field, direction) ==
    IF IsTheJobsArray(f) THEN filteredAndSortedJobs(list, f, field, direction) ELSE list

\* Math.ceil(length / ITEMS_PER_PAGE)
TotalPagesOf(length) == (length + ITEMS_PER_PAGE - 1) \div ITEMS_PER_PAGE

totalPages == TotalPagesOf(Len(Filtered(jobs, filters)))

Smaller(a, b) == IF a < b THEN a ELSE b

Larger(a, b) == IF a > b THEN a ELSE b

\* Faulty variant: the block of buttons centred on the current page without
\* the bound at its upper end.
FirstPageNumberCentred(total, page) == Larger(1, page - 2)

\* Math.max(1, Math.min(totalPages - 4, currentPage - 2)): the number on the
\* first page-number button.
FirstPageNumber(total, page) == Larger(1, Smaller(total - 4, page - 2))

\* The numbers on the page-number buttons: Math.min(5, totalPages) of them,
\* shown when totalPages > 1.
PageNumbers(total, page) ==
    IF total > 1
    THEN {FirstPageNumber(total, page) + i : i \in 0..(Smaller(5, total) - 1)}
    ELSE { }

\* Faulty variant: every click on a column header flips the direction.
DirectionAlwaysFlipped(current, field, direction) ==
    IF direction = "asc" THEN "desc" ELSE "asc"

\* The direction handleSort sets: flipped on the current sort field, 'asc'
\* on another one.
DirectionAfterSort(current, field, direction) ==
    IF current = field
    THEN (IF direction = "asc" THEN "desc" ELSE "asc")
    ELSE "asc"

SortFields == {"session_start", "material_type", "status", "duration_minutes"}

FilterTypes == {"date", "week", "month", "year"}

\* The values of the date input: cleared, or today.
FilterDates(now) == {"", Today(now)}

\* Options of the two selects, and a search text that matches a run of
\* session ids.
MaterialOptions == {"", "hyperDENT"}

StatusOptions == {"", "Completed"}

SearchTexts == {"", "100"}

FilterValues(key, now) ==
    CASE key = "type" -> FilterTypes
      [] key = "date" -> FilterDates(now)
      [] key = "materialType" -> MaterialOptions
      [] key = "status" -> StatusOptions
      [] key = "search" -> SearchTexts

\* The initial value of filters, and the value resetFilters sets:
\* new Date().toISOString().split('T')[0] is today's date text.
DefaultFilters(now) ==
    [type |-> "date", date |-> Today(now), materialType |-> "", status |-> "", search |-> ""]

\* The i-th job of a loaded list: three of four jobs start today, every
\* other one carries a session_start at noon; material, status and duration
\* (hundredths of a minute) rotate together, the colour alternates.
JobOf(i, now) ==
    [session_id |-> 1000 + i,
     session_start |-> IF i % 2 = 1 THEN NoonOfDay(DayOf(now) - (IF i % 4 = 0 THEN 1 ELSE 0)) ELSE "",
     start_date |-> IF i % 4 = 0 THEN Yesterday(now) ELSE Today(now),
     start_hour |-> IF i % 2 = 1 THEN 12 ELSE 0,
     material_type |-> <<"Denture Care", "Pan Dental", "hyperDENT">>[(i % 3) + 1],
     material_color |-> <<"A1", "WhiteWax">>[(i % 2) + 1],
     status |-> <<"Completed", "In Progress", "Incomplete">>[(i % 3) + 1],
     duration_minutes |-> 500 + 100 * (i % 3),
     job_count |-> 1]

\* The lists loadJobs can set: none, two or MaxJobs jobs, in file order.
JobLists(now) == {[i \in 1..n |-> JobOf(i, now)] : n \in {0, 2, MaxJobs}}

\* The jobs page after its first render: loading, no jobs, page 1, sorted by
\* session_start descending, today's date as the date filter.
InitJobs ==
    /\ clock = SundayNoon
    /\ timeRange = "daily"
    /\ written = << >>
    /\ server = << >>
    /\ fetched = << >>
    /\ csv = NullValue
    /\ dailyText = << >>
    /\ sessionsText = << >>
    /\ parsedRows = << >>
    /\ pc = "off"
    /\ loading = TRUE
    /\ error = NullValue
    /\ dashboardData = NullValue
    /\ pending = FALSE
    /\ origin = "none"
    /\ loaded = FALSE
    /\ dailyData = << >>
    /\ sessions = << >>
    /\ calls = << >>
    /\ jobs = << >>
    /\ currentPage = 1
    /\ sortField = "session_start"
    /\ sortDirection = "desc"
    /\ filters = DefaultFilters(clock)

JobsPageOnly ==
    /\ UNCHANGED <<sessionsText, written, loaded, dailyData, sessions, timeRange, clock, calls>>
    /\ UNCHANGED <<parseVars, server, fetched, csv, error, dashboardData, pending, origin>>

\* loadJobs from the answer of loadCSVData on: setJobs with the parsed
\* sessions or the sample jobs, setLoading(false), and the render that
\* computes the memo.
LoadJobs ==
    /\ loading
    /\ \E list \in JobLists(clock) :
          jobs' = JobsAfterMemo(list, filters, sortField, sortDirection)
    /\ loading' = FALSE
    /\ UNCHANGED <<currentPage, sortField, sortDirection, filters>>
    /\ JobsPageOnly

\* A click on a column header, and the render that follows.
handleSort(field) ==
    /\ ~loading
    /\ sortField' = (IF sortField = field THEN sortField ELSE field)
    /\ sortDirection' = DirectionAfterSort(sortField, field, sortDirection)
    /\ currentPage' = 1
    /\ jobs' = JobsAfterMemo(jobs, filters, sortField', sortDirection')
    /\ UNCHANGED <<filters, loading>>
    /\ JobsPageOnly

\* A change of one filter control, and the render that follows.
handleFilterChange(key, value) ==
    /\ ~loading
    /\ filters' = [filters EXCEPT ![key] = value]
    /\ currentPage' = 1
    /\ jobs' = JobsAfterMemo(jobs, filters', sortField, sortDirection)
    /\ UNCHANGED <<sortField, sortDirection, loading>>
    /\ JobsPageOnly

\* Reset Filters, and the render that follows.
resetFilters ==
    /\ ~loading
    /\ filters' = DefaultFilters(clock)
    /\ currentPage' = 1
    /\ jobs' = JobsAfterMemo(jobs, filters', sortField, sortDirection)
    /\ UNCHANGED <<sortField, sortDirection, loading>>
    /\ JobsPageOnly

\* Previous: shown when totalPages > 1, disabled on page 1.
ClickPrevious ==
    /\ ~loading
    /\ currentPage # 1
    /\ totalPages > 1
    /\ currentPage' = Larger(1, currentPage - 1)
    /\ UNCHANGED <<jobs, sortField, sortDirection, filters, loading>>
    /\ JobsPageOnly

\* The page Next sets, for the totalPages of the render it was shown in.
PageAfterNext(total, page) == Smaller(total, page + 1)

\* Next: shown when total > 1, disabled on the last page.
NextShown(total, page) == total > 1 /\ page # total

\* Next, clicked in a render with total pages.
ClickNextOf(total) ==
    /\ NextShown(total, currentPage)
    /\ currentPage' = PageAfterNext(total, currentPage)

ClickNext ==
    /\ ~loading
    /\ ClickNextOf(totalPages)
    /\ UNCHANGED <<jobs, sortField, sortDirection, filters, loading>>
    /\ JobsPageOnly

\* A click on one of the page-number buttons.
ClickPageNumber ==
    /\ ~loading
    /\ \E pageNum \in PageNumbers(totalPages, currentPage) : currentPage' = pageNum
    /\ UNCHANGED <<jobs, sortField, sortDirection, filters, loading>>
    /\ JobsPageOnly

NextJobs ==
    \/ LoadJobs
    \/ \E field \in SortFields : handleSort(field)
    \/ \E key \in {"type", "date", "materialType", "status", "search"} :
          \E value \in FilterValues(key, clock) : handleFilterChange(key, value)
    \/ resetFilters
    \/ ClickPrevious
    \/ ClickNext
    \/ ClickPageNumber

SpecJobs == InitJobs /\ [][NextJobs]_vars

\* C23: computing the filtered and sorted list never modifies the jobs
\* array of the state: whatever the user does after the load, jobs keeps its
\* elements in their loaded order.
C23_JobsKeepLoadedOrder ==
    [][~loading => jobs' = jobs]_vars

\* The current page and the page-number buttons, for a filtered list of
\* `length` jobs shown on `total` pages.
PageWithinRange(length, total, page) ==
    /\ page >= 1
    /\ length > 0 =>
          /\ page <= total
          /\ total * ITEMS_PER_PAGE >= length
          /\ (total - 1) * ITEMS_PER_PAGE < length
    /\ PageNumbers(total, page) \subseteq 1..total
    /\ total > 1 => page \in PageNumbers(total, page)

\* C24: after any sequence of user actions and of load completion,
\* currentPage >= 1; whenever the filtered list is not empty, currentPage <=
\* totalPages and totalPages is the least number of pages of ITEMS_PER_PAGE
\* rows that hold the list; every page-number button shown is within
\* 1..totalPages, and whenever the buttons are shown the current page is
\* one of them.
C24_PageWithinRange ==
    PageWithinRange(Len(Filtered(jobs, filters)), totalPages, currentPage)

\* The last of more than five pages is shown, under a filter: its button is
\* the last of five.
C24_Witness ==
    /\ ~loading
    /\ totalPages > 5
    /\ currentPage = totalPages
    /\ filters.type = "month" /\ filters.date # ""
    /\ PageNumbers(totalPages, currentPage) = (totalPages - 4)..totalPages

\* C25: handleSort(f) on the current sort field keeps the field and flips
\* sortDirection; on another field it sets sortField to f and sortDirection
\* to 'asc'; in both cases currentPage becomes 1 and filters is unchanged;
\* on the current field, the direction a second handleSort(f) would set is
\* the one held before the first.
C25_HandleSort ==
    [][\A f \in SortFields :
          handleSort(f) =>
              /\ sortField' = f
              /\ IF sortField = f
                 THEN /\ sortDirection' # sortDirection
                      /\ sortDirection' \in {"asc", "desc"}
                      /\ DirectionAfterSort(sortField', f, sortDirection') = sortDirection
                 ELSE sortDirection' = "asc"
              /\ currentPage' = 1
              /\ filters' = filters]_vars

\* The status column clicked twice, away from page 1 before: sorted by status
\* descending, on page 1 again, the filters as they were set.
C25_Witness ==
    /\ ~loading
    /\ sortField = "status"
    /\ sortDirection = "desc"
    /\ currentPage = 1
    /\ filters.type = "year" /\ filters.status = "Completed"

\* C26: loadCSVData always resolves, and its result is all or nothing: with
\* error null, dailyData and jobSessions are the parsed contents of the two
\* documents; with an error both arrays are empty, also when the daily
\* document had been read and parsed before the sessions request failed.
\* The sessions document is requested only after the daily one was read.
C26_AllOrNothing ==
    /\ [](pc = "returned" =>
            \/ /\ csv.error = NullValue
               /\ csv.dailyData = parseDailyData(server.dailyBody)
               /\ csv.jobSessions = parseJobSessions(server.sessionsBody)
            \/ /\ csv.error # NullValue
               /\ csv.dailyData = << >>
               /\ csv.jobSessions = << >>)
    /\ [](\A i \in 1..Len(fetched) :
            fetched[i] = "sessions" =>
                i > 1 /\ fetched[i - 1] = "daily" /\ dailyText = server.dailyBody)
    /\ (pc = "daily" ~> pc = "returned")

\* The daily document was read and gave records, the sessions request was
\* rejected, and loadCSVData has returned.
C26_Witness ==
    /\ pc = "returned"
    /\ server.daily = "ok" /\ server.sessions = "unreachable"
    /\ parseDailyData(dailyText) # << >>
    /\ csv.error # NullValue

\* C27: every load ends with loading = false, and whenever loading is false
\* rawData is set, to the parsed data or to the placeholder data.
C27_LoadEndsWithData ==
    /\ (loading ~> ~loading)
    /\ [](~loading => loaded /\ origin \in {"parsed", "placeholder"})

\* A load that ended on the error branch: the placeholder data is set.
C27_Witness ==
    /\ ~loading
    /\ loaded
    /\ origin = "placeholder"
    /\ Truthy(error)
    /\ dailyData # << >>

\* C28: once rawData is set, every change of timeRange or rawData runs the
\* recompute effect, and once the effects have run dashboardData is the
\* result of processDataForTimeRange for rawData and the current timeRange.
C28_ResultIsCurrent ==
    /\ [](loaded /\ ~pending =>
            dashboardData = processDataForTimeRange(dailyData, sessions, timeRange, clock))
    /\ (pending ~> ~pending)

\* A second granularity was selected after the load and its result is shown.
C28_Witness ==
    /\ loaded /\ ~pending
    /\ timeRange = "yearly"
    /\ origin = "parsed"
    /\ calls # << >>
    /\ calls[1].range = "yearly"
    /\ calls[1].value.totalJobs > 0
    /\ dashboardData = calls[1].value

\* C29: bucketing neither loses nor double-counts an in-window daily record:
\* every in-window daily record has exactly one chart point with the label
\* of its bucket, and the jobs of all chart points add up to the
\* total_sessions of the in-window daily records, for every granularity.
C29_EveryRecordCountedOnce ==
    \A c \in Made :
        /\ \A i \in DailyIn(c) :
              Cardinality({j \in 1..Len(c.value.chartData) :
                              c.value.chartData[j].date
                                  = KeyOfText(c.daily[i].start_date, c.range)}) = 1
        /\ SumOfSet(1..Len(c.value.chartData),
                    [j \in 1..Len(c.value.chartData) |-> c.value.chartData[j].jobs])
              = BucketSum(c, DailyIn(c), "total_sessions")

\* Three in-window records with 3, 4 and 3 sessions in two buckets, next to
\* none outside the window: two points with 10 jobs between them.
C29_Witness ==
    \E c \in Made :
        /\ Len(c.daily) = 3
        /\ Cardinality(DailyIn(c)) = 3
        /\ Len(c.value.chartData) = 2
        /\ BucketSum(c, DailyIn(c), "total_sessions") = 10
        /\ \E p \in Points(c) : p.jobs = 7

====
